---------------------------- MODULE Spec2Model ----------------------------
(***************************************************************************)
(* Verification model of the retrieval pipeline and the chat service of    *)
(* the chatbot backend:                                                    *)
(*   - CacheManager        services/retrieval/managers/cache_manager.py    *)
(*   - EmbeddingService    services/embedding_service.py                   *)
(*   - DocumentFactory     services/retrieval/factories/document_factory.py*)
(*   - ResultProcessor     services/retrieval/utils/result_processor.py    *)
(*   - DocumentProcessor   services/document_processor.py                  *)
(*   - RetrievalServiceImpl services/retrieval/retrieval_service.py        *)
(*   - RetrievalServiceImpl services/retrieval_service.py (the module the  *)
(*     frontend and the chat service import)                               *)
(*   - ChromaDBManager     utils/database.py, at its interface             *)
(*   - DocumentUploadService services/document_upload_service.py           *)
(*   - SessionManager      services/chat/managers/session_manager.py       *)
(*   - ContextManager      services/chat/managers/context_manager.py       *)
(*   - ChatServiceImpl     services/chat/chat_service.py                   *)
(*   - ChatServiceImpl     services/chat_service.py (the module the        *)
(*     frontend imports)                                                   *)
(* Each component has its own specification over the shared variables; a   *)
(* specification leaves the variables of the other components unchanged.   *)
(***************************************************************************)
EXTENDS Integers, Sequences, FiniteSets, TLC

(***************************************************************************)
(* Bounds of the model.                                                    *)
(***************************************************************************)
\* CacheManager(max_size=...): capacity of the document cache
CacheMaxSize == 2
\* the clock (datetime.utcnow()) runs from 0 to MaxTime
MaxTime == 2
\* number of CacheManager calls in one run
MaxCacheOps == 4

\* EmbeddingService(batch_size=...): texts per provider request
BatchSize == 2
\* EmbeddingService(cache_size=...): capacity of the embedding cache
EmbCacheSize == 2
\* longest list of texts handed to get_embeddings
MaxTexts == 3
\* largest retry_attempts argument
MaxRetry == 2
\* number of get_embeddings / get_embedding calls in one run
MaxEmbCalls == 2

\* DocumentProcessor(chunk_size=..., chunk_overlap=..., min_chunk_size=...),
\* scaled down from 1000 / 200 / 100 characters
ChunkSize == 3
ChunkOverlap == 1
MinChunkSize == 2
\* longest document content handed to process_document, in characters
MaxContentLen == 5
\* longest list of chunks handed to a reconstruction
MaxChunks == 3

\* retrieval services: number of service calls in a run
MaxSvcCalls == 4

\* retrieval services: largest limit of a get_similar_documents call
MaxLimit == 2

\* session manager: number of SessionManager calls in a run
MaxSmCalls == 2
\* chat service: number of get_response calls in a run
MaxTurns == 1
\* chat service: largest number of chunks the model streams
MaxStream == 2

\* DocumentValidator.MIN_CONTENT_LENGTH
MIN_CONTENT_LENGTH == 10

\* CacheManager(default_ttl=...): default time-to-live in clock ticks, short
\* enough for an entry to outlive it before the clock stops
DefaultTtl == MaxTime - 1

\* "absent": the None a lookup returns
NoDoc == [id |-> "none", rev |-> 0]

(***************************************************************************)
(* CacheManager: an OrderedDict id -> CacheEntry, oldest first.            *)
(***************************************************************************)
CacheIds == {"d1", "d2", "d3"}
CacheDocs == [id : CacheIds, rev : {1, 2}]
\* the ttl argument of put: <<>> is None, <<n>> is the integer n
TtlArgs == {<<>>, <<0>>, <<-1>>}

\* CacheEntry.__init__: created_at = utcnow(); last_accessed and access_count
\* are bookkeeping no operation reads, and are left out
CacheEntry(doc, ttl, t) ==
    [id |-> doc.id, document |-> doc, created_at |-> t, ttl |-> ttl]

\* mutant: an entry already counts as expired at its deadline
is_expired_AtDeadline(e, t) == t >= e.created_at + e.ttl

\* CacheEntry.is_expired: utcnow() > created_at + ttl
is_expired(e, t) == t > e.created_at + e.ttl

\* position of key in the ordered dict, 0 when absent
IndexOf(c, key) ==
    IF \E i \in 1..Len(c) : c[i].id = key
    THEN CHOOSE i \in 1..Len(c) : c[i].id = key
    ELSE 0

\* OrderedDict.pop(key, None)
DictPop(c, key) == SelectSeq(c, LAMBDA e : e.id # key)

\* `ttl or self._default_ttl`: None and 0 are falsy
EffectiveTtl(ttl) == IF ttl = <<>> \/ ttl = <<0>> THEN DefaultTtl ELSE ttl[1]

\* _remove_lru_entry in the `while len(self._cache) >= self._max_size` loop:
\* drops entries from the front until there is room
RECURSIVE EvictToFit(_)
EvictToFit(c) ==
    IF Len(c) >= CacheMaxSize /\ Len(c) > 0 THEN EvictToFit(Tail(c)) ELSE c

\* mutant: put never evicts
CachePut_NoEvict(c, doc, ttl, t) ==
    Append(DictPop(c, doc.id), CacheEntry(doc, EffectiveTtl(ttl), t))

\* mutant: put evicts only to make room for a key that is not yet cached
CachePut_EvictNewOnly(c, doc, ttl, t) ==
    LET fit == IF IndexOf(c, doc.id) # 0 THEN c ELSE EvictToFit(c)
    IN  Append(DictPop(fit, doc.id), CacheEntry(doc, EffectiveTtl(ttl), t))

\* CacheManager.put: evict, then self._cache[id] = entry; move_to_end(id)
CachePut(c, doc, ttl, t) ==
    LET fit == EvictToFit(c)
    IN  Append(DictPop(fit, doc.id), CacheEntry(doc, EffectiveTtl(ttl), t))

\* number of _remove_entry calls of a put (each counts one eviction)
PutEvictions(c) == Len(c) - Len(EvictToFit(c))

\* mutant: a hit leaves the entry where it is
CacheGetCache_NoMove(c, key, t) ==
    LET i == IndexOf(c, key)
    IN  IF i = 0 THEN c
        ELSE IF is_expired(c[i], t) THEN DictPop(c, key)
        ELSE c

\* CacheManager.get, the cache after the call
CacheGetCache(c, key, t) ==
    LET i == IndexOf(c, key)
    IN  IF i = 0 THEN c
        ELSE IF is_expired(c[i], t) THEN DictPop(c, key)
        ELSE Append(DictPop(c, key), c[i])

\* CacheManager.get, the value returned
CacheGetResult(c, key, t) ==
    LET i == IndexOf(c, key)
    IN  IF i = 0 \/ is_expired(c[i], t) THEN NoDoc ELSE c[i].document

\* CacheManager.cleanup: the keys of the expired entries
ExpiredKeys(c, t) == {c[i].id : i \in {j \in 1..Len(c) : is_expired(c[j], t)}}

(***************************************************************************)
(* Texts are sequences of one-character strings.                           *)
(* DocumentProcessor: _clean_text, the text splitter, the size filter.     *)
(***************************************************************************)
\* a word character, a second one, whitespace, a character outside [\w\s.,!?-]
Chars == {"a", "b", " ", "#"}
Contents == UNION {[1..n -> Chars] : n \in 0..MaxContentLen}

IsSpace(ch) == ch = " "

\* re.sub(r'\s+', ' ', text)
RECURSIVE CollapseSpaces(_)
CollapseSpaces(s) ==
    IF Len(s) < 2 THEN s
    ELSE IF IsSpace(s[1]) /\ IsSpace(s[2]) THEN CollapseSpaces(Tail(s))
    ELSE <<s[1]>> \o CollapseSpaces(Tail(s))

\* re.sub(r'[^\w\s.,!?-]', '', text)
RemoveSpecial(s) == SelectSeq(s, LAMBDA ch : ch # "#")

RECURSIVE LStrip(_)
LStrip(s) == IF s # <<>> /\ IsSpace(s[1]) THEN LStrip(Tail(s)) ELSE s

RECURSIVE RStrip(_)
RStrip(s) ==
    IF s # <<>> /\ IsSpace(s[Len(s)]) THEN RStrip(SubSeq(s, 1, Len(s) - 1)) ELSE s

\* str.strip()
Strip(s) == RStrip(LStrip(s))

\* DocumentProcessor._clean_text: collapse whitespace, then drop the special
\* characters, then strip
clean_text(text) == Strip(RemoveSpecial(CollapseSpaces(text)))

\* "".join(pieces)
RECURSIVE Concat(_)
Concat(pieces) ==
    IF pieces = <<>> THEN <<>> ELSE pieces[1] \o Concat(Tail(pieces))

\* the splitter's split on " " with keep_separator: every space starts a new
\* piece, empty pieces are dropped
RECURSIVE SplitKeep(_, _, _)
SplitKeep(s, cur, acc) ==
    IF s = <<>> THEN (IF cur = <<>> THEN acc ELSE Append(acc, cur))
    ELSE IF IsSpace(s[1])
         THEN SplitKeep(Tail(s), <<s[1]>>, IF cur = <<>> THEN acc ELSE Append(acc, cur))
         ELSE SplitKeep(Tail(s), Append(cur, s[1]), acc)

SplitOnSpace(s) == SplitKeep(s, <<>>, <<>>)

\* the splitter's split on "": list(text)
CharPieces(s) == [i \in 1..Len(s) |-> <<s[i]>>]

\* the splitter's overlap loop: drop pieces from the front of the current
\* chunk while it is longer than chunk_overlap or leaves no room for the next
RECURSIVE Shrink(_, _)
Shrink(cur, dlen) ==
    LET total == Len(Concat(cur))
    IN  IF total > ChunkOverlap \/ (total + dlen > ChunkSize /\ total > 0)
        THEN Shrink(Tail(cur), dlen)
        ELSE cur

\* the splitter's _join_docs: joined and stripped, nothing when empty
AddDoc(docs, cur) ==
    LET t == Strip(Concat(cur)) IN IF t = <<>> THEN docs ELSE Append(docs, t)

\* the splitter's _merge_splits: pack pieces into chunks of at most
\* chunk_size, each starting with the overlap kept from the one before
RECURSIVE MergeFrom(_, _, _, _)
MergeFrom(splits, k, cur, docs) ==
    IF k > Len(splits) THEN AddDoc(docs, cur)
    ELSE LET d == splits[k]
             full == Len(Concat(cur)) + Len(d) > ChunkSize /\ cur # <<>>
         IN  MergeFrom(splits, k + 1,
                       Append(IF full THEN Shrink(cur, Len(d)) ELSE cur, d),
                       IF full THEN AddDoc(docs, cur) ELSE docs)

merge_splits(splits) == MergeFrom(splits, 1, <<>>, <<>>)

\* the splitter on a piece with no separator left but "": character cuts
SplitChars(s) ==
    IF 1 < ChunkSize THEN merge_splits(CharPieces(s)) ELSE CharPieces(s)

\* the splitter's loop over the pieces: short pieces are merged, a piece of
\* chunk_size or more is split again by characters
RECURSIVE SplitFrom(_, _, _, _)
SplitFrom(splits, k, good, final) ==
    LET flushed == IF good # <<>> THEN final \o merge_splits(good) ELSE final
    IN  IF k > Len(splits) THEN flushed
        ELSE IF Len(splits[k]) < ChunkSize
             THEN SplitFrom(splits, k + 1, Append(good, splits[k]), final)
             ELSE SplitFrom(splits, k + 1, <<>>, flushed \o SplitChars(splits[k]))

\* self._splitter.split_text(cleaned_content): cleaned text holds no newline,
\* so the first separator that matches is " ", or "" when there is no space
split_text(text) ==
    IF \E i \in 1..Len(text) : IsSpace(text[i])
    THEN SplitFrom(SplitOnSpace(text), 1, <<>>, <<>>)
    ELSE SplitChars(text)

\* process_document up to the size filter: the chunk texts
ChunkTexts(content) ==
    SelectSeq(split_text(clean_text(content)), LAMBDA c : Len(c) >= MinChunkSize)

(***************************************************************************)
(* Chunk documents and their reconstruction.  A chunk handed to a          *)
(* reconstruction is [content, chunk_index, created]: created tells        *)
(* whether its metadata carries an ISO created_at, the one metadata field  *)
(* the rebuilt document is validated on.                                   *)
(***************************************************************************)
ChunkContents == {<<"a", "b", "c", "d">>, <<"e", "f">>}
\* chunk_index values, with a gap
ChunkIndexes == {0, 1, 2, 5}
ChunkRecords ==
    [content : ChunkContents, chunk_index : ChunkIndexes, created : BOOLEAN]
\* lists of chunks with distinct chunk_index values, in any order
ChunkLists ==
    UNION {{l \in [1..n -> ChunkRecords] :
               \A i, j \in 1..n : i # j => l[i].chunk_index # l[j].chunk_index} :
           n \in 0..MaxChunks}

\* mutant: the chunks are taken in the order given
SortByIndex_AsGiven(chunks) == chunks

\* list.sort(key=chunk_index) is stable: a chunk goes behind every chunk
\* whose index is not larger
RECURSIVE InsertByIndex(_, _)
InsertByIndex(sorted, c) ==
    IF sorted = <<>> THEN <<c>>
    ELSE IF sorted[1].chunk_index <= c.chunk_index
         THEN <<sorted[1]>> \o InsertByIndex(Tail(sorted), c)
         ELSE <<c>> \o sorted

RECURSIVE SortFrom(_, _, _)
SortFrom(chunks, k, sorted) ==
    IF k > Len(chunks) THEN sorted
    ELSE SortFrom(chunks, k + 1, InsertByIndex(sorted, chunks[k]))

\* chunks.sort(key=lambda x: x.metadata.get("chunk_index", 0))
SortByIndex(chunks) == SortFrom(chunks, 1, <<>>)

\* " ".join(chunk.content for chunk in chunks)
RECURSIVE JoinContents(_)
JoinContents(chunks) ==
    IF chunks = <<>> THEN <<>>
    ELSE IF Len(chunks) = 1 THEN chunks[1].content
    ELSE chunks[1].content \o <<" ">> \o JoinContents(Tail(chunks))

Raised(error) == [kind |-> error, content |-> <<>>, created |-> FALSE]
NoOutcome == Raised("none")

\* DocumentFactory.reconstruct_from_chunks: the document rebuilt from the
\* sorted chunks, its metadata taken from the first of them
ReconstructFromChunks(chunks) ==
    IF chunks = <<>> THEN Raised("DocumentFactoryError")
    ELSE LET sorted == SortByIndex(chunks)
         IN  [kind |-> "ok", content |-> JoinContents(sorted),
              created |-> sorted[1].created]

\* DocumentValidator.validate on the rebuilt document: the content length
\* and the created_at of the metadata are what can fail
Validate(content, created) == created /\ Len(content) >= MIN_CONTENT_LENGTH

\* ResultProcessor.process_chunk_results: chunks[0] of an empty result is an
\* IndexError, an invalid document is refused; both leave as
\* ResultProcessorError
ProcessChunkResults(chunks) ==
    IF chunks = <<>> THEN Raised("ResultProcessorError")
    ELSE LET sorted == SortByIndex(chunks)
             content == JoinContents(sorted)
         IN  IF Validate(content, sorted[1].created)
             THEN [kind |-> "ok", content |-> content, created |-> sorted[1].created]
             ELSE Raised("ResultProcessorError")

\* RetrievalServiceImpl._reconstruct_document of services/retrieval_service.py:
\* Document(id=..., content=..., metadata=..., created_at=...) lacks the
\* required title, source_link and document_type, and chunks[0] of an empty
\* result is an IndexError: every call raises
ReconstructDocumentLegacy(chunks) == Raised("ValidationError")

\* dict.update: the keys of b win
DictUpdate(a, b) ==
    [k \in DOMAIN a \cup DOMAIN b |-> IF k \in DOMAIN b THEN b[k] ELSE a[k]]

EmptyDict == [k \in {} |-> 0]
\* metadata maps of a parent document
ParentMetas ==
    { EmptyDict,
      [k \in {"author"} |-> "x"],
      [k \in {"chunk_index"} |-> 7],
      [k \in {"total_chunks"} |-> 0],
      [k \in {"original_id"} |-> "other"] }
ParentIds == {"d1", "d2"}

\* f"{original_doc.id}_chunk_{chunk_index}"
ChunkId(id, i) == <<id, "_chunk_", i>>

\* DocumentFactory.create_chunk
CreateChunk(id, metadata, chunk_content, chunk_index, total_chunks) ==
    [id |-> ChunkId(id, chunk_index),
     title |-> <<id, "(Chunk", chunk_index + 1, total_chunks>>,
     content |-> chunk_content,
     metadata |-> DictUpdate(
         [k \in {"original_id", "chunk_index", "total_chunks", "section"} |->
             CASE k = "original_id" -> id
               [] k = "chunk_index" -> chunk_index
               [] k = "total_chunks" -> total_chunks
               [] OTHER -> "none"],
         metadata)]

NoPd == [id |-> "none", content |-> <<>>, texts |-> <<>>, kind |-> "none",
         chunks |-> <<>>]
NoRecon == [by |-> "none", fresh |-> FALSE, input |-> <<>>, out |-> NoOutcome]
NoCc == [kind |-> "none", id |-> "none", chunk_index |-> 0, total_chunks |-> 0,
         chunk |-> CreateChunk("none", EmptyDict, <<>>, 0, 0)]

VARIABLES
    pd,     \* the last process_document call: content, chunk texts, outcome
    recon,  \* the last reconstruction: who ran it, on what, the outcome
    cc      \* the last create_chunk call and the chunk it built

chunkVars == <<pd, recon, cc>>

(***************************************************************************)
(* EmbeddingService: get_embeddings holds the service lock from the cache  *)
(* check to the return, so calls do not interleave; the provider request   *)
(* of each attempt is a step of its own that succeeds or raises.           *)
(***************************************************************************)
EmbTexts == {"a", "b"}
TextLists == UNION {[1..n -> EmbTexts] : n \in 0..MaxTexts}
RetryArgs == 0..MaxRetry

\* the vector the provider computes for a text
EmbedVec(t) == [of |-> t]
\* None in place of a vector
NoVec == [of |-> "none"]

\* self._embeddings.embed_documents(batch)
embed_documents(batch) == [i \in 1..Len(batch) |-> EmbedVec(batch[i])]

\* EmbeddingCache.get: the cached vector or None
EmbCacheGet(c, key) ==
    IF \E i \in 1..Len(c) : c[i].key = key
    THEN c[CHOOSE i \in 1..Len(c) : c[i].key = key].value
    ELSE NoVec

\* EmbeddingCache.set that removes the newest key when the cache is full
EmbCacheSet_EvictNewest(c, key, value) ==
    LET room == IF Len(c) >= EmbCacheSize /\ Len(c) > 0
                THEN SubSeq(c, 1, Len(c) - 1) ELSE c
    IN  IF \E i \in 1..Len(room) : room[i].key = key
        THEN [i \in 1..Len(room) |->
                 IF room[i].key = key THEN [key |-> key, value |-> value]
                 ELSE room[i]]
        ELSE Append(room, [key |-> key, value |-> value])

\* EmbeddingCache.set: drop the oldest key when full, then cache[key] = value
EmbCacheSet(c, key, value) ==
    LET room == IF Len(c) >= EmbCacheSize /\ Len(c) > 0 THEN Tail(c) ELSE c
    IN  IF \E i \in 1..Len(room) : room[i].key = key
        THEN [i \in 1..Len(room) |->
                 IF room[i].key = key THEN [key |-> key, value |-> value]
                 ELSE room[i]]
        ELSE Append(room, [key |-> key, value |-> value])

\* the cache check: cached_results, None where the text is not cached
CachedResults(c, texts) == [i \in 1..Len(texts) |-> EmbCacheGet(c, texts[i])]

\* the cache check: missing_indices (positions count from 1 here)
MissingIndices(c, texts) ==
    SelectSeq([i \in 1..Len(texts) |-> i],
              LAMBDA i : EmbCacheGet(c, texts[i]) = NoVec)

\* missing_texts[i:i + batch_size] for the batch starting after `start`
BatchAt(texts, missing, start) ==
    [k \in 1..(IF Len(missing) - start < BatchSize
               THEN Len(missing) - start ELSE BatchSize) |->
        texts[missing[start + k]]]

\* number of rounds of `for i in range(0, len(missing_texts), batch_size)`
BatchCount(missing) == (Len(missing) + BatchSize - 1) \div BatchSize

\* zip(missing_indices, all_embeddings) stops at the shorter list
ZipLen(missing, allEmb) ==
    IF Len(missing) < Len(allEmb) THEN Len(missing) ELSE Len(allEmb)

\* `for i, embedding in zip(...)`: await self._cache.set(texts[i], embedding)
RECURSIVE EmbCacheSetAll(_, _, _, _, _)
EmbCacheSetAll(c, texts, missing, allEmb, k) ==
    IF k > ZipLen(missing, allEmb) THEN c
    ELSE EmbCacheSetAll(EmbCacheSet(c, texts[missing[k]], allEmb[k]),
                        texts, missing, allEmb, k + 1)

\* `cached_results[i] = embedding`, then [r for r in cached_results if r is not None]
MergedResults(cr, missing, allEmb) ==
    LET n == ZipLen(missing, allEmb)
        merged == [i \in 1..Len(cr) |->
                      IF \E k \in 1..n : missing[k] = i
                      THEN allEmb[CHOOSE k \in 1..n : missing[k] = i]
                      ELSE cr[i]]
    IN  SelectSeq(merged, LAMBDA r : r # NoVec)

\* what the caller gets: get_embeddings returns the list, get_embedding
\* returns embeddings[0], an IndexError when the list is empty
Returned(single, vectors) ==
    IF single /\ vectors = <<>> THEN [kind |-> "IndexError", vectors |-> <<>>]
    ELSE IF single THEN [kind |-> "ok", vectors |-> <<vectors[1]>>]
    ELSE [kind |-> "ok", vectors |-> vectors]

NoResult == [kind |-> "none", vectors |-> <<>>]
NoCall == [texts |-> <<>>, retry_attempts |-> 0, single |-> FALSE]

VARIABLES
    embCache,       \* EmbeddingCache.cache, oldest key first
    embPc,          \* "idle", "calling" (in the batch loop) or "done"
    embCall,        \* the arguments of the running call
    missing,        \* missing_indices
    batchStart,     \* the batch loop's i
    attempt,        \* the retry loop's attempt
    allEmb,         \* all_embeddings
    providerCalls,  \* per batch so far, the number of provider requests made
    unserved,       \* batches whose retry loop ended without a provider success
    embResult,      \* what the call returned or raised
    embCallsMade    \* number of calls started

embVars == <<embCache, embPc, embCall, missing, batchStart, attempt, allEmb,
             providerCalls, unserved, embResult, embCallsMade>>

VARIABLES
    cache,      \* CacheManager._cache, oldest entry first
    stats,      \* CacheManager._stats
    now,        \* the clock
    cacheOps,   \* number of CacheManager calls made
    lastCall,   \* the last CacheManager call and what it returned
    latest,     \* per id, the document most recently put
    putRun,     \* ids put so far while the run consists of puts of distinct ids only
    touch       \* the cached ids in the order of their last touch (put or
                \* successful get), that order before the call when the call
                \* was a put, and, while only puts have followed the last
                \* successful get, the id it read and the ids touched after it

cacheVars == <<cache, stats, now, cacheOps, lastCall, latest, putRun, touch>>

(***************************************************************************)
(* The vector store behind ChromaDBManager and the retrieval services.     *)
(* A document is [id, rev]: rev stands for its content.  Documents handed  *)
(* to a service come from the factory: their metadata carries created_at   *)
(* and their content has at least MIN_CONTENT_LENGTH characters, so a      *)
(* document rebuilt from stored records passes the validator.  A revision  *)
(* 1 content is shorter than min_chunk_size, a revision 2 content is not.  *)
(* A service operator gives the set of outcomes its call can have: the     *)
(* provider and the store may raise wherever they are called.              *)
(***************************************************************************)
RetIds == {"d1", "d2", "d1_chunk_0"}
RetDocs == [id : RetIds, rev : {1, 2}]
\* document.status of a document handed to a service: PENDING for a new
\* document, COMPLETED for one that get_document has rebuilt
Statuses == {"pending", "completed"}

\* metadata["original_id"] of a chunk document (create_chunk), "none" when
\* the metadata has no such key
OriginalId(id) == IF id = "d1_chunk_0" THEN "d1" ELSE "none"
\* f"{document_id}_chunk_{i}" for i in range(1), "none" outside the store
FirstChunkId(id) == IF id = "d1" THEN "d1_chunk_0" ELSE "none"
\* document.content as the text handed to the embedding service
DocText(doc) == IF doc.rev = 1 THEN "a" ELSE "b"
\* document.content as the text handed to the document processor
DocContent(rev) == IF rev = 1 THEN <<"a">> ELSE <<"a", "b", "a">>

EmptyStore == [r \in RetIds |-> NoDoc]
\* collection.delete(ids=ids)
StoreDelete(st, ids) == [r \in RetIds |-> IF r \in ids THEN NoDoc ELSE st[r]]
\* the records matching where={"original_id": document_id}
Hits(st, id) == {r \in RetIds : st[r] # NoDoc /\ OriginalId(r) = id}
\* process_chunk_results on the hits: Document(id=original_id, content=...)
RebuiltDoc(st, id) == [id |-> id, rev |-> st[CHOOSE r \in Hits(st, id) : TRUE].rev]

\* CacheManager.get / put / remove on cm = [cache, stats]
CmGet(cm, key, t) ==
    LET i == IndexOf(cm.cache, key)
    IN  [cache |-> CacheGetCache(cm.cache, key, t),
         stats |-> IF i = 0 THEN [cm.stats EXCEPT !.misses = @ + 1]
                   ELSE IF is_expired(cm.cache[i], t)
                        THEN [cm.stats EXCEPT !.misses = @ + 1, !.evictions = @ + 1]
                        ELSE [cm.stats EXCEPT !.hits = @ + 1]]
CmPut(cm, doc, t) ==
    [cache |-> CachePut(cm.cache, doc, <<>>, t),
     stats |-> [cm.stats EXCEPT !.evictions = @ + PutEvictions(cm.cache)]]
CmRemove(cm, key) ==
    [cache |-> DictPop(cm.cache, key),
     stats |-> IF IndexOf(cm.cache, key) # 0
               THEN [cm.stats EXCEPT !.evictions = @ + 1] ELSE cm.stats]

\* DocumentProcessor.process_document as a callee: [] or DocumentProcessorError
ProcessOutcome(content) ==
    IF ChunkTexts(content) = <<>> THEN "ok" ELSE "DocumentProcessorError"

\* RetrievalServiceImpl.get_document of services/retrieval/retrieval_service.py.
\* On a cache miss the query raises DatabaseError, or returns its hits.  With
\* no hit, a result whose "documents" is empty gives None, and a result
\* holding one empty list goes to process_chunk_results, whose chunks[0]
\* raises.  Hits are rebuilt into a document, which is cached.
GetDocument(cm, st, id, t) ==
    LET cached == CacheGetResult(cm.cache, id, t)
        cm1 == CmGet(cm, id, t)
        raised(db) == [kind |-> "RetrievalServiceError", doc |-> NoDoc,
                       cm |-> cm1, db |-> db]
    IN  IF cached # NoDoc
        THEN {[kind |-> "ok", doc |-> cached, cm |-> cm1, db |-> FALSE]}
        ELSE {raised(TRUE)} \cup
             (IF Hits(st, id) = {}
              THEN {[kind |-> "ok", doc |-> NoDoc, cm |-> cm1, db |-> FALSE],
                    raised(FALSE)}
              ELSE {[kind |-> "ok", doc |-> RebuiltDoc(st, id),
                     cm |-> CmPut(cm1, RebuiltDoc(st, id), t), db |-> FALSE]})

\* RetrievalServiceImpl.delete_document of the same module: db.delete is
\* handed [document_id]
DeleteDocument(cm, st, id, t) ==
    UNION {IF g.kind # "ok"
           THEN {[kind |-> "RetrievalServiceError", flag |-> FALSE,
                  cm |-> g.cm, store |-> st, db |-> g.db]}
           ELSE IF g.doc = NoDoc
           THEN {[kind |-> "ok", flag |-> FALSE, cm |-> g.cm, store |-> st,
                  db |-> FALSE]}
           ELSE {[kind |-> "RetrievalServiceError", flag |-> FALSE,
                  cm |-> g.cm, store |-> st, db |-> TRUE],
                 [kind |-> "ok", flag |-> TRUE, cm |-> CmRemove(g.cm, id),
                  store |-> StoreDelete(st, {id}), db |-> FALSE]}
           : g \in GetDocument(cm, st, id, t)}

\* RetrievalServiceImpl.add_document of the same module: get_embedding
\* raises only when it has to ask the provider; collection.add raises,
\* writes the record, or keeps the record it already holds under the id
AddDocument(cm, st, ec, doc, t) ==
    LET text == DocText(doc)
        known == EmbCacheGet(ec, text) # NoVec
        ec1 == IF known THEN ec ELSE EmbCacheSet(ec, text, EmbedVec(text))
        added(st1) == [kind |-> "ok", cm |-> CmPut(cm, doc, t), store |-> st1,
                       ec |-> ec1, db |-> FALSE]
    IN  (IF known THEN {}
         ELSE {[kind |-> "RetrievalServiceError", cm |-> cm, store |-> st,
                ec |-> ec, db |-> FALSE]})
        \cup {[kind |-> "RetrievalServiceError", cm |-> cm, store |-> st,
               ec |-> ec1, db |-> TRUE],
              added([st EXCEPT ![doc.id] = doc])}
        \cup (IF st[doc.id] # NoDoc THEN {added(st)} ELSE {})

\* RetrievalServiceImpl.update_document of the same module: delete, whose
\* result is not looked at, then add
UpdateDocument(cm, st, ec, id, doc, t) ==
    UNION {IF d.kind # "ok"
           THEN {[kind |-> d.kind, cm |-> d.cm, store |-> d.store, ec |-> ec,
                  db |-> d.db, deleted |-> FALSE, addFailed |-> FALSE]}
           ELSE {[kind |-> a.kind, cm |-> a.cm, store |-> a.store,
                  ec |-> a.ec, db |-> a.db, deleted |-> d.flag,
                  addFailed |-> a.kind # "ok"]
                 : a \in AddDocument(d.cm, d.store, ec, doc, t)}
           : d \in DeleteDocument(cm, st, id, t)}

\* the documents process_search_results makes of a query with n_results:
\* the store returns at most n_results of its records, in the order the
\* distances give, and a record that does not validate is left out
SearchHits(st, n_results) ==
    {[i \in 1..Len(l) |-> st[l[i]]] :
        l \in {h \in UNION {[1..n -> RetIds] : n \in 0..n_results} :
                  /\ \A i \in 1..Len(h) : st[h[i]] # NoDoc
                  /\ \A i, j \in 1..Len(h) : i # j => h[i] # h[j]}}

\* RetrievalServiceImpl.search_documents: get_embedding(query), db.query,
\* process_search_results; any failure leaves as RetrievalServiceError
SearchDocuments(st, ec, text, limit) ==
    LET known == EmbCacheGet(ec, text) # NoVec
        ec1 == IF known THEN ec ELSE EmbCacheSet(ec, text, EmbedVec(text))
    IN  (IF known THEN {}
         ELSE {[kind |-> "RetrievalServiceError", docs |-> <<>>, ec |-> ec]})
        \cup {[kind |-> "RetrievalServiceError", docs |-> <<>>, ec |-> ec1]}
        \cup {[kind |-> "ok", docs |-> docs, ec |-> ec1] :
                 docs \in SearchHits(st, limit)}

\* metadata["search_score"] of a search result: the distance of the record
SearchScore(doc) == IF doc.id = "d2" THEN 0 ELSE 1

\* mutant: the reference document stays among the results
FilterReference_Keep(similar_docs, document_id) == similar_docs

\* get_similar_documents: [doc for doc in similar_docs if doc.id != document_id]
FilterReference(similar_docs, document_id) ==
    SelectSeq(similar_docs, LAMBDA doc : doc.id # document_id)

\* get_similar_documents: the score filter, <<>> for score_threshold=None
FilterScore(docs, score_threshold) ==
    IF score_threshold = <<>> THEN docs
    ELSE SelectSeq(docs, LAMBDA doc : SearchScore(doc) >= score_threshold[1])

\* RetrievalServiceImpl.get_similar_documents: [] for a reference that
\* get_document does not find, else the search with limit + 1, filtered
GetSimilarDocuments(cm, st, ec, document_id, limit, score_threshold, t) ==
    UNION {IF g.kind # "ok"
           THEN {[kind |-> "RetrievalServiceError", docs |-> <<>>,
                  found |-> <<>>, cm |-> g.cm, ec |-> ec]}
           ELSE IF g.doc = NoDoc
           THEN {[kind |-> "ok", docs |-> <<>>, found |-> <<>>, cm |-> g.cm,
                  ec |-> ec]}
           ELSE {[kind |-> r.kind,
                  docs |-> FilterScore(FilterReference(r.docs, document_id),
                                       score_threshold),
                  found |-> r.docs, cm |-> g.cm, ec |-> r.ec]
                 : r \in SearchDocuments(st, ec, DocText(g.doc), limit + 1)}
           : g \in GetDocument(cm, st, document_id, t)}

\* self._get_cached_document(document_id) under @lru_cache: the first call
\* for an id reads self._document_cache, every later one repeats its result
LruLookup(lc, m, id) == IF m[id] = <<>> THEN lc[id] ELSE m[id][1]
LruAfter(lc, m, id) == IF m[id] = <<>> THEN [m EXCEPT ![id] = <<lc[id]>>] ELSE m

\* RetrievalServiceImpl.get_document of services/retrieval_service.py: with
\* no cached document and a result to rebuild, _reconstruct_document raises
LegacyGetDocument(lc, m, st, id) ==
    LET cached == LruLookup(lc, m, id)
        raised(db) == [kind |-> "RetrievalServiceError", doc |-> NoDoc,
                       db |-> db]
    IN  IF cached # NoDoc
        THEN {[kind |-> "ok", doc |-> cached, db |-> FALSE]}
        ELSE {raised(TRUE), raised(FALSE)} \cup
             (IF Hits(st, id) = {}
              THEN {[kind |-> "ok", doc |-> NoDoc, db |-> FALSE]}
              ELSE {})

\* RetrievalServiceImpl.delete_document of services/retrieval_service.py:
\* document.metadata has no total_chunks, so one chunk id is deleted
LegacyDeleteDocument(lc, m, st, id) ==
    UNION {IF g.kind # "ok"
           THEN {[kind |-> "RetrievalServiceError", flag |-> FALSE,
                  lc |-> lc, store |-> st, db |-> g.db]}
           ELSE IF g.doc = NoDoc
           THEN {[kind |-> "ok", flag |-> FALSE, lc |-> lc, store |-> st,
                  db |-> FALSE]}
           ELSE {[kind |-> "RetrievalServiceError", flag |-> FALSE,
                  lc |-> lc, store |-> st, db |-> TRUE],
                 [kind |-> "ok", flag |-> TRUE,
                  lc |-> StoreDelete(lc, {id, FirstChunkId(id)}),
                  store |-> StoreDelete(st, {FirstChunkId(id)}), db |-> FALSE]}
           : g \in LegacyGetDocument(lc, m, st, id)}

\* RetrievalServiceImpl.add_document of services/retrieval_service.py: the
\* processor returns [] or raises, get_embeddings([]) returns [], and the
\* store is handed empty lists
LegacyAddDocument(lc, doc) ==
    IF ProcessOutcome(DocContent(doc.rev)) # "ok"
    THEN {[kind |-> "RetrievalServiceError", lc |-> lc, db |-> FALSE]}
    ELSE {[kind |-> "RetrievalServiceError", lc |-> lc, db |-> TRUE],
          [kind |-> "ok", lc |-> [lc EXCEPT ![doc.id] = doc], db |-> FALSE]}

\* RetrievalServiceImpl.update_document of services/retrieval_service.py
LegacyUpdateDocument(lc, m, st, id, doc) ==
    UNION {IF d.kind # "ok"
           THEN {[kind |-> d.kind, lc |-> d.lc, store |-> d.store,
                  db |-> d.db, deleted |-> FALSE, addFailed |-> FALSE]}
           ELSE {[kind |-> a.kind, lc |-> a.lc, store |-> d.store,
                  db |-> a.db, deleted |-> d.flag,
                  addFailed |-> a.kind # "ok"]
                 : a \in LegacyAddDocument(d.lc, doc)}
           : d \in LegacyDeleteDocument(lc, m, st, id)}

\* the record of a service call: which service and operation, the id, how
\* the call ended, the document or flag returned, document.status after an
\* add or update, whether the store raised, whether delete_document had
\* returned True for the id before, within an update whether the delete
\* step returned True and whether the add step raised, and for
\* get_similar_documents its limit, what the search found and the list
\* returned
NoSvc == [service |-> "none", op |-> "none", id |-> "none", kind |-> "none",
          doc |-> NoDoc, flag |-> FALSE, status |-> "none", db |-> FALSE,
          wasGone |-> FALSE, deleted |-> FALSE, addFailed |-> FALSE,
          limit |-> 0, found |-> <<>>, docs |-> <<>>]
NoUpload == [pc |-> "idle", status |-> "none", rev |-> 0, kind |-> "none",
             stored |-> FALSE]

VARIABLES
    store,        \* the collection: per id the record stored under it
    svc,          \* the last service call and its outcome
    svcCalls,     \* number of service calls made
    deletedIds,   \* ids whose delete_document returned True, no add since
    legacyCache,  \* self._document_cache of services/retrieval_service.py
    memo,         \* the lru_cache of _get_cached_document: <<>> or <<result>>
    upload        \* the process_upload call in progress and its document

retVars == <<store, svc, svcCalls, deletedIds, legacyCache, memo, upload>>

(***************************************************************************)
(* SessionManager (services/chat/managers/session_manager.py), ChatSession *)
(* (models/chat.py) and ChatServiceImpl.get_response: pure parts.          *)
(***************************************************************************)
SessIds == {"s1", "s2"}
\* settings.chat.system_prompt, as a string of characters
SystemPrompt == <<"S">>
\* Message(content=..., role=...)
Message(role, content) == [role |-> role, content |-> content]
Messages == {Message("user", <<"q">>), Message("system", <<"x">>)}
\* session_manager._sessions.get(session_id) of an id the map does not hold
NoSession == [exists |-> FALSE, messages |-> <<>>, context_documents |-> <<>>]

\* a metadata argument without a "context_documents" entry (None, {})
NoMetadata == <<"-">>
\* create_session without the system message
CreateSession_NoPrompt(metadata) ==
    [exists |-> TRUE, messages |-> <<>>,
     context_documents |-> IF metadata = NoMetadata THEN <<>> ELSE metadata]

\* SessionManager.create_session: ChatSession(id, metadata or {}, messages=[])
\* with the system message appended; metadata is followed through its
\* "context_documents" entry
CreateSession(metadata) ==
    [exists |-> TRUE,
     messages |-> <<Message("system", SystemPrompt)>>,
     context_documents |-> IF metadata = NoMetadata THEN <<>> ELSE metadata]

\* ChatSession.add_message: self.messages.append(message)
AddMessage(session, message) ==
    [session EXCEPT !.messages = Append(@, message)]

\* ChatSession.get_context: self.messages[-max_messages:] if max_messages
\* else self.messages; max_messages is <<>> for None and <<k>> for k >= 0
GetContext(messages, max_messages) ==
    LET n == Len(messages)
    IN  IF max_messages = <<>> \/ max_messages[1] = 0 THEN messages
        ELSE SubSeq(messages, (IF max_messages[1] >= n THEN 1
                               ELSE n - max_messages[1] + 1), n)

\* the record of the last SessionManager call: for get_context the
\* max_messages argument and the session's messages when it was called
NoSm == [op |-> "none", id |-> "none", kind |-> "none", existed |-> FALSE,
         unchanged |-> TRUE, arg |-> <<>>, messages |-> <<>>, ret |-> <<>>,
         meta |-> NoMetadata, n |-> 0]
\* the get_response call in progress: the session_id argument, the id of
\* the session it works on, whether it created the session, the messages of
\* the session when the call began, the query, the chunks yielded so far,
\* how the call ended, and whether another call changed the session's
\* messages while the model was streaming
NoTurn == [pc |-> "idle", arg |-> "none", sid |-> "none", created |-> FALSE,
           before |-> <<>>, query |-> <<>>, yielded |-> <<>>,
           kind |-> "none", raised |-> "none", touched |-> FALSE, n |-> 0]

VARIABLES
    sessions,     \* SessionManager._sessions
    sm,           \* the last SessionManager call and its outcome
    turn          \* the get_response call in progress

chatVars == <<sessions, sm, turn>>

\* add_message that creates the session it does not find
SmAddMessage_Create(ss, id, message) ==
    [kind |-> IF ss[id].exists THEN "ok" ELSE "SessionManagerError",
     sessions |-> [ss EXCEPT ![id] = AddMessage(
                      IF ss[id].exists THEN @ ELSE CreateSession(NoMetadata),
                      message)]]

\* SessionManager.add_message: SessionManagerError when get_session finds
\* nothing, else session.add_message(message)
SmAddMessage(ss, id, message) ==
    IF ss[id].exists
    THEN [kind |-> "ok", sessions |-> [ss EXCEPT ![id] = AddMessage(@, message)]]
    ELSE [kind |-> "SessionManagerError", sessions |-> ss]

\* get_response, `session = None ... create_session(session_id)`: the
\* session the turn works on; fresh is the uuid4 of a call without an id
ResolveSession(ss, session_id, fresh) ==
    IF session_id # "none" /\ ss[session_id].exists
    THEN [sid |-> session_id, created |-> FALSE, sessions |-> ss]
    ELSE LET sid == IF session_id # "none" THEN session_id ELSE fresh
         IN  [sid |-> sid, created |-> TRUE,
              sessions |-> [ss EXCEPT ![sid] = CreateSession(NoMetadata)]]

\* chunk.content of the i-th chunk of the model's stream: the chunks differ
StreamChunk(i) == <<(<<"a", "b", "c", "d", "e">>)[i]>>

\* a final message that keeps only the last chunk of the stream
AssistantMessage_Last(response_chunks) ==
    Message("assistant", IF response_chunks = <<>> THEN <<>>
                         ELSE response_chunks[Len(response_chunks)])

\* get_response, the final message: Message("".join(response_chunks),
\* role="assistant")
AssistantMessage(response_chunks) == Message("assistant", Concat(response_chunks))

\* get_response, `except Exception as e: ... raise ChatServiceError(...)`,
\* for an exception raised in step: what was yielded stays with the caller
TurnRaise(t, step) ==
    [t EXCEPT !.pc = "done", !.kind = "ChatServiceError", !.raised = step]

\* the steps of get_response between the user message and the stream:
\* retrieval_service.get_document for the session's context documents,
\* prepare_combined_context, format_prompt and ChatOpenAI(...); pre names
\* the step that raises
PreSteps == {"ok", "documents", "context", "prompt"}
Prepare(t, pre) == IF pre = "ok" THEN t ELSE TurnRaise(t, pre)

\* the same steps of the legacy get_response: a context document that
\* cannot be fetched is logged and skipped
legacy_Prepare(t, pre) ==
    IF pre = "ok" THEN t
    ELSE IF pre = "documents" THEN [t EXCEPT !.raised = pre]
    ELSE TurnRaise(t, pre)

\* another call changes the messages of the session a turn is working on
Touch(t, id) ==
    IF t.pc # "idle" /\ t.sid = id THEN [t EXCEPT !.touched = TRUE] ELSE t

(***************************************************************************)
(* ContextManager (services/chat/managers/context_manager.py).  Strings    *)
(* are sequences of characters, so that the length of the returned         *)
(* context is the length the code's len() sees.                            *)
(***************************************************************************)
\* context manager: largest number of documents in a list
MaxContextDocs == 20

\* settings.chat.max_context_length
DEFAULT_MAX_CONTEXT_LENGTH == 4000

\* a context document: metadata['type'], content and metadata['timestamp']
\* (0 when the metadata has none: datetime.min)
ContextDoc(type, content, timestamp) ==
    [type |-> type, content |-> content, timestamp |-> timestamp]

\* str(i) for the enumerate index of a document
Digit(d) == <<(<<"0", "1", "2", "3", "4", "5", "6", "7", "8", "9">>)[d + 1]>>
Digits(i) == IF i < 10 THEN Digit(i) ELSE Digit(i \div 10) \o Digit(i % 10)

\* f"Dokument {i} ({doc.metadata.get('type', 'unbekannt')}):\n{doc.content}\n"
DocBlock(i, doc) ==
    <<"D", "o", "k", "u", "m", "e", "n", "t", " ">> \o Digits(i)
        \o <<" ", "(">> \o doc.type \o <<")", ":", "\n">>
        \o doc.content \o <<"\n">>

\* sorted(documents, key=timestamp, reverse=True): a stable sort, the
\* later timestamp first
RECURSIVE SortByTimestamp(_)
SortByTimestamp(documents) ==
    IF documents = <<>> THEN <<>>
    ELSE LET top == CHOOSE i \in 1..Len(documents) :
                       /\ \A j \in 1..Len(documents) :
                              documents[j].timestamp <= documents[i].timestamp
                       /\ \A j \in 1..(i - 1) :
                              documents[j].timestamp < documents[i].timestamp
         IN  <<documents[top]>>
                 \o SortByTimestamp([j \in 1..(Len(documents) - 1) |->
                        IF j < top THEN documents[j] ELSE documents[j + 1]])

\* the loop of prepare_document_context from document i on: the blocks
\* appended to context_parts until one does not fit
RECURSIVE ContextParts(_, _, _, _)
ContextParts(documents, i, total_length, max_context_length) ==
    IF i > Len(documents) THEN <<>>
    ELSE LET doc_text == DocBlock(i, documents[i])
         IN  IF total_length + Len(doc_text) > max_context_length THEN <<>>
             ELSE <<doc_text>>
                     \o ContextParts(documents, i + 1,
                                     total_length + Len(doc_text),
                                     max_context_length)

\* "\n".join(context_parts)
RECURSIVE JoinLines(_)
JoinLines(context_parts) ==
    IF context_parts = <<>> THEN <<>>
    ELSE IF Len(context_parts) = 1 THEN context_parts[1]
    ELSE context_parts[1] \o <<"\n">> \o JoinLines(Tail(context_parts))

\* ContextManager.__init__: max_context_length or the setting
EffectiveMaxLength(max_context_length) ==
    IF max_context_length = 0 THEN DEFAULT_MAX_CONTEXT_LENGTH
    ELSE max_context_length

\* prepare_document_context(documents, query) of a manager built with
\* max_context_length: the documents in the order used, the blocks taken
\* and the string returned
PrepareDocumentContext(documents, query, max_context_length) ==
    LET ordered == IF documents # <<>> /\ query # <<>>
                   THEN SortByTimestamp(documents) ELSE documents
        parts == ContextParts(ordered, 1, 0,
                              EffectiveMaxLength(max_context_length))
    IN  [ordered |-> ordered, parts |-> parts, ret |-> JoinLines(parts)]

NoCtx == [pc |-> "idle", documents |-> <<>>, max_context_length |-> 0,
          ordered |-> <<>>, parts |-> <<>>, ret |-> <<>>]

VARIABLE
    ctx           \* the last prepare_document_context call and its result

ctxVars == <<ctx>>

(***************************************************************************)
(* EmbeddingCache.get and EmbeddingCache.set called on their own.          *)
(***************************************************************************)
EcKeys == {"a", "b", "c"}

\* EmbeddingCache.set: the key `del self.cache[oldest_key]` removes, if any
EmbCacheOldest(c) ==
    IF Len(c) >= EmbCacheSize /\ Len(c) > 0 THEN <<c[1].key>> ELSE <<>>

NoEc == [op |-> "none", key |-> "none", evicted |-> <<>>, ret |-> NoVec,
         fifo |-> <<>>, was |-> <<>>, full |-> FALSE]

(***************************************************************************)
(* ResultProcessor.process_search_results.  A hit carries the id, the      *)
(* distance, the metadata's document_type and whether the metadata has a   *)
(* created_at; the raw results may come without a "distances" list and may *)
(* be malformed.                                                           *)
(***************************************************************************)
\* largest number of hits in the raw results
MaxHits == 2

HitIds == {"d1", "d2", "d3"}
Distances == {0, 2}
SearchHit == [id : HitIds, distance : Distances,
              document_type : {"sonstiges", "unbekannt"},
              created_at : BOOLEAN]
HitLists ==
    {h \in UNION {[1..n -> SearchHit] : n \in 0..MaxHits} :
        \A i, j \in 1..Len(h) : h[i].id = h[j].id => i = j}
RawResults == [hits : HitLists, distances : BOOLEAN, well_formed : BOOLEAN]
MinScores == {<<>>, <<0>>, <<1>>}

\* _validate_results_structure(results)
ValidateResultsStructure(results) == results.well_formed

\* `if min_score is not None and include_scores: if "distances" in results
\* and results["distances"][0][i] > min_score: continue`
SkippedByScore(results, i, include_scores, min_score) ==
    /\ min_score # <<>>
    /\ include_scores
    /\ results.distances
    /\ results.hits[i].distance > min_score[1]

\* the score argument: results.get("distances", [[]])[0][i] if include_scores
\* else None; without a "distances" list the lookup raises IndexError
ScoreArgument(results, i, include_scores) ==
    IF ~include_scores THEN [kind |-> "ok", score |-> <<>>]
    ELSE IF results.distances
    THEN [kind |-> "ok", score |-> <<results.hits[i].distance>>]
    ELSE [kind |-> "IndexError", score |-> <<>>]

\* _create_document_from_result: None when DocumentType(...) raises
CreateDocumentFromResult(hit, score) ==
    IF hit.document_type = "sonstiges"
    THEN <<[id |-> hit.id, search_score |-> score, created_at |-> hit.created_at]>>
    ELSE <<>>

\* DocumentValidator.validate on a document made from a hit: the metadata
\* must carry created_at
ValidateDocument(doc) == doc.created_at

\* the loop over the hits from hit i on, documents being the list so far
RECURSIVE ProcessHitsFrom(_, _, _, _, _)
ProcessHitsFrom(results, include_scores, min_score, i, documents) ==
    IF i > Len(results.hits) THEN documents
    ELSE IF SkippedByScore(results, i, include_scores, min_score)
    THEN ProcessHitsFrom(results, include_scores, min_score, i + 1, documents)
    ELSE LET arg == ScoreArgument(results, i, include_scores)
             doc == IF arg.kind = "ok"
                    THEN CreateDocumentFromResult(results.hits[i], arg.score)
                    ELSE <<>>
         IN  ProcessHitsFrom(results, include_scores, min_score, i + 1,
                 IF doc # <<>> /\ ValidateDocument(doc[1])
                 THEN Append(documents, doc[1]) ELSE documents)

\* process_search_results(results, include_scores, min_score)
ProcessSearchResults(results, include_scores, min_score) ==
    IF ~ValidateResultsStructure(results)
    THEN [kind |-> "ResultProcessorError", documents |-> <<>>]
    ELSE [kind |-> "ok",
          documents |-> ProcessHitsFrom(results, include_scores, min_score,
                                        1, <<>>)]

NoSr == [pc |-> "idle", hits |-> <<>>, distances |-> TRUE,
         include_scores |-> TRUE, min_score |-> <<>>, kind |-> "none",
         documents |-> <<>>]

(***************************************************************************)
(* Concurrent get_document / delete_document tasks on the retrieval        *)
(* service of services/retrieval/retrieval_service.py.  A task gives way   *)
(* to the others where it awaits the vector store: the store answers a     *)
(* query or applies a delete at one moment and the task goes on at a later *)
(* one.  No lock spans the steps of a call.                                *)
(***************************************************************************)
\* number of concurrent tasks
MaxTasks == 2

Tasks == 1..MaxTasks
TaskIds == {"d1", "d2"}
NoTask == [op |-> "none", id |-> "none", pc |-> "idle", doc |-> NoDoc,
           ret |-> "none", late |-> FALSE]

(***************************************************************************)
(* Concurrent get_embeddings calls.  A call holds the service lock from    *)
(* its cache check to its return; EmbeddingCache.get and .set take the     *)
(* cache's own lock.  embed_documents is a synchronous call, and a call    *)
(* gives way to the others while it waits for a lock and in the            *)
(* asyncio.sleep between two attempts.                                     *)
(***************************************************************************)
EmbTasks == {1, 2}
\* the texts of a request: one text, two texts, and three texts in two
\* batches with a text twice
RequestTexts == {<<"a">>, <<"a", "b">>, <<"b", "a", "a">>}

\* asyncio.Lock: the holder (0 when free) and the waiters, first come first
FreeLock == [holder |-> 0, waiters |-> <<>>]

\* Lock.acquire that takes the lock whoever holds it
LockAvailable_Always(lock) == TRUE

\* Lock.acquire returns at once: `not self._locked` and nobody waits
LockAvailable(lock) == lock.holder = 0 /\ lock.waiters = <<>>

\* Lock.release: the lock is free and its first waiter is woken
Released(lock) == [lock EXCEPT !.holder = 0]

NoEmbTask == [pc |-> "idle", texts |-> <<>>, retry_attempts |-> 0, i |-> 0,
              missing |-> <<>>, attempt |-> 0, allEmb |-> <<>>, sent |-> {},
              uncached |-> {}, kind |-> "none", overlap |-> FALSE]

VARIABLES
    embTask,      \* per task: the get_embeddings call it runs, its loop
                  \* counters, the texts it sent to the provider, the texts
                  \* that were not cached when it was called, its outcome, and
                  \* whether another call was running when it was called
    svcLock,      \* EmbeddingService._lock
    cacheLock,    \* EmbeddingCache._lock: its holder, 0 when free
    req,          \* per task: the call it runs, where it is, the document it
                  \* holds, what it returned, and whether its cache check
                  \* came after a delete_document of the id had returned True
    ec,           \* the last EmbeddingCache.get / set made on its own: the call,
                  \* the key it removed, what it returned, and the cached keys
                  \* in the order in which they entered the cache
    sr            \* the last process_search_results call and its outcome

taskVars == <<embTask, svcLock, cacheLock, req, ec, sr>>

vars == <<cacheVars, embVars, chunkVars, retVars, chatVars, ctxVars, taskVars>>

\* what the calls of one component leave alone
notCache == <<embVars, chunkVars, retVars, chatVars, ctxVars, taskVars>>
notEmb == <<cacheVars, chunkVars, retVars, chatVars, ctxVars, taskVars>>
\* what a call of the embedding cache on its own leaves alone besides embVars
notEmb_ec == <<cacheVars, chunkVars, retVars, chatVars, ctxVars, sr, req, embTask,
               svcLock, cacheLock>>
\* what process_search_results leaves alone
notSr == <<cacheVars, embVars, chunkVars, retVars, chatVars, ctxVars, ec, req,
           embTask, svcLock, cacheLock>>
\* what a step of a concurrent get_embeddings call leaves alone besides the
\* embedding cache, the two locks and the calls
notEmbTask == <<embPc, embCall, missing, batchStart, attempt, allEmb,
                providerCalls, unserved, embResult, embCallsMade, cacheVars,
                chunkVars, retVars, chatVars, ctxVars, req, ec, sr>>
\* what a step of a get_document / delete_document task leaves alone besides
\* the caches, the cache statistics and the store
notTask_emb == <<now, cacheOps, lastCall, latest, putRun, touch, embPc, embCall,
                 missing, batchStart, attempt, allEmb, providerCalls, unserved,
                 embResult, embCallsMade, chunkVars, svc, svcCalls, deletedIds,
                 legacyCache, memo, upload, chatVars, ctxVars, ec, sr, embTask,
                 svcLock, cacheLock>>
notChunk == <<cacheVars, embVars, retVars, chatVars, ctxVars, taskVars>>
notChat == <<cacheVars, embVars, chunkVars, retVars, ctxVars, taskVars>>
notCtx == <<cacheVars, embVars, chunkVars, retVars, chatVars, taskVars>>
\* what a retrieval service call leaves alone besides its own state
notSvc == <<now, cacheOps, lastCall, latest, putRun, touch, embPc, embCall, missing,
            batchStart, attempt, allEmb, providerCalls, unserved, embResult,
            embCallsMade, chunkVars, upload, chatVars, ctxVars, taskVars>>
\* what a process_upload step leaves alone
notUpload == <<cacheVars, embVars, chunkVars, store, deletedIds, legacyCache,
               memo, chatVars, ctxVars, taskVars>>

\* a list of ids with id moved to, or put at, its end
MoveToEnd(ids, id) == Append(SelectSeq(ids, LAMBDA x : x # id), id)
\* the ids of a list that the cache c holds
Resident(ids, c) == SelectSeq(ids, LAMBDA x : IndexOf(c, x) # 0)
NoTouch == [touched |-> <<>>, before |-> <<>>, read |-> <<>>, over |-> {}]
\* the place of id in a list of ids that holds it
Place(ids, id) == CHOOSE i \in 1..Len(ids) : ids[i] = id

CacheInit ==
    /\ cache = <<>>
    /\ stats = [hits |-> 0, misses |-> 0, evictions |-> 0, cleanups |-> 0]
    /\ now = 0
    /\ cacheOps = 0
    /\ lastCall = [op |-> "init", id |-> "none", ret |-> NoDoc, n |-> 0]
    /\ latest = [k \in CacheIds |-> NoDoc]
    /\ putRun = [ok |-> TRUE, ids |-> <<>>]
    /\ touch = NoTouch

EmbInit ==
    /\ embCache = <<>>
    /\ embPc = "idle"
    /\ embCall = NoCall
    /\ missing = <<>>
    /\ batchStart = 0
    /\ attempt = 0
    /\ allEmb = <<>>
    /\ providerCalls = <<>>
    /\ unserved = 0
    /\ embResult = NoResult
    /\ embCallsMade = 0

ChunkInit ==
    /\ pd = NoPd
    /\ recon = NoRecon
    /\ cc = NoCc

RetInit ==
    /\ store = EmptyStore
    /\ svc = NoSvc
    /\ svcCalls = 0
    /\ deletedIds = {}
    /\ legacyCache = EmptyStore
    /\ memo = [r \in RetIds |-> <<>>]
    /\ upload = NoUpload

ChatInit ==
    /\ sessions = [s \in SessIds |-> NoSession]
    /\ sm = NoSm
    /\ turn = NoTurn

CtxInit == ctx = NoCtx

TaskInit ==
    /\ embTask = [t \in EmbTasks |-> NoEmbTask]
    /\ svcLock = FreeLock
    /\ cacheLock = 0
    /\ req = [t \in Tasks |-> NoTask]
    /\ ec = NoEc
    /\ sr = NoSr

Init ==
    /\ CacheInit /\ EmbInit /\ ChunkInit /\ RetInit /\ ChatInit /\ CtxInit
    /\ TaskInit

\* await cache_manager.put(document, ttl)
put(doc, ttl) ==
    /\ cacheOps < MaxCacheOps
    /\ cache' = CachePut(cache, doc, ttl, now)
    /\ stats' = [stats EXCEPT !.evictions = @ + PutEvictions(cache)]
    /\ cacheOps' = cacheOps + 1
    /\ lastCall' = [op |-> "put", id |-> doc.id, ret |-> doc, n |-> 0]
    /\ latest' = [latest EXCEPT ![doc.id] = doc]
    /\ putRun' = IF putRun.ok /\ \A i \in 1..Len(putRun.ids) : putRun.ids[i] # doc.id
                 THEN [putRun EXCEPT !.ids = Append(@, doc.id)]
                 ELSE [ok |-> FALSE, ids |-> <<>>]
    /\ touch' = [touch EXCEPT
                     !.touched = MoveToEnd(Resident(@, cache'), doc.id),
                     !.before = touch.touched]
    /\ UNCHANGED <<now, notCache>>

\* await cache_manager.get(document_id)
get(key) ==
    /\ cacheOps < MaxCacheOps
    /\ cache' = CacheGetCache(cache, key, now)
    /\ LET i == IndexOf(cache, key)
       IN  stats' = IF i = 0 THEN [stats EXCEPT !.misses = @ + 1]
                    ELSE IF is_expired(cache[i], now)
                         THEN [stats EXCEPT !.misses = @ + 1, !.evictions = @ + 1]
                         ELSE [stats EXCEPT !.hits = @ + 1]
    /\ cacheOps' = cacheOps + 1
    /\ lastCall' = [op |-> "get", id |-> key,
                    ret |-> CacheGetResult(cache, key, now),
                    n |-> Len(cache) - Len(CacheGetCache(cache, key, now))]
    /\ putRun' = [ok |-> FALSE, ids |-> <<>>]
    /\ touch' = IF CacheGetResult(cache, key, now) # NoDoc
                THEN [touched |-> MoveToEnd(touch.touched, key),
                      before |-> <<>>,
                      read |-> <<key>>,
                      over |-> {touch.touched[i] :
                                   i \in (Place(touch.touched, key) + 1)
                                             ..Len(touch.touched)}]
                ELSE [NoTouch EXCEPT !.touched = Resident(touch.touched, cache')]
    /\ UNCHANGED <<now, latest, notCache>>

\* await cache_manager.remove(document_id)
remove(key) ==
    /\ cacheOps < MaxCacheOps
    /\ cache' = DictPop(cache, key)
    /\ stats' = IF IndexOf(cache, key) # 0
                THEN [stats EXCEPT !.evictions = @ + 1] ELSE stats
    /\ cacheOps' = cacheOps + 1
    /\ lastCall' = [op |-> "remove", id |-> key, ret |-> NoDoc,
                    n |-> IF IndexOf(cache, key) # 0 THEN 1 ELSE 0]
    /\ putRun' = [ok |-> FALSE, ids |-> <<>>]
    /\ touch' = [NoTouch EXCEPT !.touched = Resident(touch.touched, cache')]
    /\ UNCHANGED <<now, latest, notCache>>

\* await cache_manager.cleanup(), also run by the background cleanup_loop
cleanup ==
    /\ cacheOps < MaxCacheOps
    /\ LET gone == ExpiredKeys(cache, now)
       IN  /\ cache' = SelectSeq(cache, LAMBDA e : e.id \notin gone)
           /\ stats' = [stats EXCEPT !.evictions = @ + Cardinality(gone),
                                     !.cleanups = @ + 1]
           /\ lastCall' = [op |-> "cleanup", id |-> "none", ret |-> NoDoc,
                           n |-> Cardinality(gone)]
    /\ cacheOps' = cacheOps + 1
    /\ putRun' = [ok |-> FALSE, ids |-> <<>>]
    /\ touch' = [NoTouch EXCEPT !.touched = Resident(touch.touched, cache')]
    /\ UNCHANGED <<now, latest, notCache>>

\* time passes between two calls
Tick ==
    /\ now < MaxTime
    /\ now' = now + 1
    /\ UNCHANGED <<cache, stats, cacheOps, lastCall, latest, putRun, touch,
                   notCache>>

CacheNext ==
    \/ \E doc \in CacheDocs, ttl \in TtlArgs : put(doc, ttl)
    \/ \E key \in CacheIds : get(key)
    \/ \E key \in CacheIds : remove(key)
    \/ cleanup
    \/ Tick

SpecCache == Init /\ [][CacheNext]_vars

(***************************************************************************)
(* EmbeddingService.get_embeddings / get_embedding                         *)
(***************************************************************************)
\* the end of get_embeddings: update the cache, merge, return
Finish(texts, single, miss, embs, unservedNow) ==
    /\ embCache' = EmbCacheSetAll(embCache, texts, miss, embs, 1)
    /\ embResult' = Returned(single,
                        MergedResults(CachedResults(embCache, texts), miss, embs))
    /\ embPc' = "done"
    /\ unserved' = unservedNow

\* the call up to its first provider request: the cache check, the early
\* return when nothing is missing, and batch loops whose retry loop
\* `for attempt in range(retry_attempts)` has no round at all
Begin(texts, retry_attempts, single) ==
    /\ embCallsMade' = embCallsMade + 1
    /\ embCall' = [texts |-> texts, retry_attempts |-> retry_attempts,
                   single |-> single]
    /\ LET miss == MissingIndices(embCache, texts)
       IN  /\ missing' = miss
           /\ allEmb' = <<>>
           /\ batchStart' = 0
           /\ attempt' = 0
           /\ IF miss = <<>>
              THEN /\ providerCalls' = <<>>
                   /\ Finish(texts, single, miss, <<>>, 0)
              ELSE IF retry_attempts <= 0
              THEN /\ providerCalls' = [b \in 1..BatchCount(miss) |-> 0]
                   /\ Finish(texts, single, miss, <<>>, BatchCount(miss))
              ELSE /\ providerCalls' = <<0>>
                   /\ embPc' = "calling"
                   /\ embResult' = NoResult
                   /\ unserved' = 0
                   /\ UNCHANGED embCache
    /\ UNCHANGED notEmb

\* await embedding_service.get_embeddings(texts, retry_attempts)
get_embeddings(texts, retry_attempts) ==
    /\ embPc = "idle"
    /\ embCallsMade < MaxEmbCalls
    /\ Begin(texts, retry_attempts, FALSE)

\* await embedding_service.get_embedding(text, retry_attempts)
get_embedding(text, retry_attempts) ==
    /\ embPc = "idle"
    /\ embCallsMade < MaxEmbCalls
    /\ Begin(<<text>>, retry_attempts, TRUE)

CountCall(calls) == [calls EXCEPT ![Len(calls)] = @ + 1]

\* embed_documents(batch) returns: extend all_embeddings, break, next batch
\* or the end of the call
embed_ok ==
    /\ embPc = "calling"
    /\ LET embs == allEmb \o embed_documents(BatchAt(embCall.texts, missing, batchStart))
       IN  /\ allEmb' = embs
           /\ IF batchStart + BatchSize < Len(missing)
              THEN /\ batchStart' = batchStart + BatchSize
                   /\ attempt' = 0
                   /\ providerCalls' = Append(CountCall(providerCalls), 0)
                   /\ UNCHANGED <<embCache, embPc, embResult, unserved>>
              ELSE /\ providerCalls' = CountCall(providerCalls)
                   /\ Finish(embCall.texts, embCall.single, missing, embs, unserved)
                   /\ UNCHANGED <<batchStart, attempt>>
    /\ UNCHANGED <<embCall, missing, embCallsMade, notEmb>>

\* embed_fail that caches the vectors of the earlier batches before raising
embed_fail_WritesPartial ==
    /\ embPc = "calling"
    /\ providerCalls' = CountCall(providerCalls)
    /\ IF attempt = embCall.retry_attempts - 1
       THEN /\ embPc' = "done"
            /\ embResult' = [kind |-> "EmbeddingServiceError", vectors |-> <<>>]
            /\ unserved' = unserved + 1
            /\ embCache' = EmbCacheSetAll(embCache, embCall.texts, missing,
                                          allEmb, 1)
            /\ UNCHANGED attempt
       ELSE /\ attempt' = attempt + 1
            /\ UNCHANGED <<embCache, embPc, embResult, unserved>>
    /\ UNCHANGED <<embCall, missing, batchStart, allEmb, embCallsMade, notEmb>>

\* embed_documents(batch) raises: sleep and retry, or on the last attempt
\* raise EmbeddingServiceError out of the call
embed_fail ==
    /\ embPc = "calling"
    /\ providerCalls' = CountCall(providerCalls)
    /\ IF attempt = embCall.retry_attempts - 1
       THEN /\ embPc' = "done"
            /\ embResult' = [kind |-> "EmbeddingServiceError", vectors |-> <<>>]
            /\ unserved' = unserved + 1
            /\ UNCHANGED attempt
       ELSE /\ attempt' = attempt + 1
            /\ UNCHANGED <<embPc, embResult, unserved>>
    /\ UNCHANGED <<embCache, embCall, missing, batchStart, allEmb, embCallsMade,
                   notEmb>>

\* the caller takes the result; the lock is free for the next call
EmbReturn ==
    /\ embPc = "done"
    /\ embPc' = "idle"
    /\ UNCHANGED <<embCache, embCall, missing, batchStart, attempt, allEmb,
                   providerCalls, unserved, embResult, embCallsMade, notEmb>>

EmbNext ==
    \/ \E texts \in TextLists, r \in RetryArgs : get_embeddings(texts, r)
    \/ \E text \in EmbTexts, r \in RetryArgs : get_embedding(text, r)
    \/ embed_ok
    \/ embed_fail
    \/ EmbReturn

SpecEmbedding == Init /\ [][EmbNext]_vars

(***************************************************************************)
(* DocumentProcessor.process_document, DocumentFactory.create_chunk and    *)
(* the reconstructions                                                     *)
(***************************************************************************)
\* no call of this group is being looked at
ChunkIdle == pd = NoPd /\ recon = NoRecon /\ cc = NoCc

\* await processor.process_document(document): with no chunk left after the
\* filter it returns []; otherwise building the first chunk Document reads
\* document.source, which Document does not have, and the call leaves as
\* DocumentProcessorError
process_document(id, content) ==
    /\ ChunkIdle
    /\ pd' = [id |-> id, content |-> content, texts |-> ChunkTexts(content),
              kind |-> ProcessOutcome(content),
              chunks |-> <<>>]
    /\ recon' = NoRecon
    /\ cc' = NoCc
    /\ UNCHANGED notChunk

\* factory.create_chunk(original_doc, chunk_content, chunk_index, total_chunks)
create_chunk(id, metadata, chunk_content, chunk_index, total_chunks) ==
    /\ ChunkIdle
    /\ cc' = [kind |-> "ok", id |-> id, chunk_index |-> chunk_index,
              total_chunks |-> total_chunks,
              chunk |-> CreateChunk(id, metadata, chunk_content, chunk_index,
                                    total_chunks)]
    /\ pd' = NoPd
    /\ recon' = NoRecon
    /\ UNCHANGED notChunk

\* factory.reconstruct_from_chunks(chunks, document_id)
reconstruct_from_chunks(chunks) ==
    /\ ChunkIdle
    /\ recon' = [by |-> "factory", fresh |-> FALSE, input |-> chunks,
                 out |-> ReconstructFromChunks(chunks)]
    /\ pd' = NoPd
    /\ cc' = NoCc
    /\ UNCHANGED notChunk

\* factory.reconstruct_from_chunks on the chunks process_document returned
reconstruct_fresh ==
    /\ pd.kind = "ok"
    /\ recon = NoRecon
    /\ recon' = [by |-> "factory", fresh |-> TRUE, input |-> pd.chunks,
                 out |-> ReconstructFromChunks(pd.chunks)]
    /\ UNCHANGED <<pd, cc, notChunk>>

\* await result_processor.process_chunk_results(results, original_id)
process_chunk_results(chunks) ==
    /\ ChunkIdle
    /\ recon' = [by |-> "processor", fresh |-> FALSE, input |-> chunks,
                 out |-> ProcessChunkResults(chunks)]
    /\ pd' = NoPd
    /\ cc' = NoCc
    /\ UNCHANGED notChunk

\* await self._reconstruct_document(results, document_id) of the older service
reconstruct_document_legacy(chunks) ==
    /\ ChunkIdle
    /\ recon' = [by |-> "legacy", fresh |-> FALSE, input |-> chunks,
                 out |-> ReconstructDocumentLegacy(chunks)]
    /\ pd' = NoPd
    /\ cc' = NoCc
    /\ UNCHANGED notChunk

\* arguments are drawn only where a call can start
ChunkArgs(S) == IF ChunkIdle THEN S ELSE {}

\* the caller is done with the outcome of the last call
ChunkDone ==
    /\ ~ChunkIdle
    /\ pd' = NoPd
    /\ recon' = NoRecon
    /\ cc' = NoCc
    /\ UNCHANGED notChunk

ChunkNext ==
    \/ \E id \in ParentIds, content \in ChunkArgs(Contents) : process_document(id, content)
    \/ \E id \in ParentIds, metadata \in ParentMetas, content \in ChunkContents,
          total \in 1..MaxChunks :
            \E i \in 0..(total - 1) : create_chunk(id, metadata, content, i, total)
    \/ \E chunks \in ChunkArgs(ChunkLists) : reconstruct_from_chunks(chunks)
    \/ reconstruct_fresh
    \/ \E chunks \in ChunkArgs(ChunkLists) : process_chunk_results(chunks)
    \/ \E chunks \in ChunkArgs(ChunkLists) : reconstruct_document_legacy(chunks)
    \/ ChunkDone

SpecChunks == Init /\ [][ChunkNext]_vars

(***************************************************************************)
(* RetrievalServiceImpl of services/retrieval/retrieval_service.py: a call *)
(* runs from start to end, and no call starts while an upload is running.  *)
(***************************************************************************)
Cm == [cache |-> cache, stats |-> stats]

\* await retrieval_service.add_document(document): document.status is
\* assigned nowhere in the call and stays what it was
add_document(doc, status) ==
    /\ svcCalls < MaxSvcCalls
    /\ upload.pc = "idle"
    /\ \E a \in AddDocument(Cm, store, embCache, doc, now) :
          /\ cache' = a.cm.cache
          /\ stats' = a.cm.stats
          /\ store' = a.store
          /\ embCache' = a.ec
          /\ svc' = [NoSvc EXCEPT !.service = "retrieval",
                        !.op = "add_document", !.id = doc.id, !.kind = a.kind,
                        !.doc = IF a.kind = "ok" THEN doc ELSE NoDoc,
                        !.status = status, !.db = a.db,
                        !.wasGone = doc.id \in deletedIds,
                        !.addFailed = a.kind # "ok"]
    /\ deletedIds' = deletedIds \ {doc.id, OriginalId(doc.id)}
    /\ svcCalls' = svcCalls + 1
    /\ UNCHANGED <<legacyCache, memo, notSvc>>

\* await retrieval_service.get_document(document_id)
get_document(id) ==
    /\ svcCalls < MaxSvcCalls
    /\ upload.pc = "idle"
    /\ \E g \in GetDocument(Cm, store, id, now) :
          /\ cache' = g.cm.cache
          /\ stats' = g.cm.stats
          /\ svc' = [NoSvc EXCEPT !.service = "retrieval",
                        !.op = "get_document", !.id = id, !.kind = g.kind,
                        !.doc = g.doc, !.db = g.db,
                        !.wasGone = id \in deletedIds]
    /\ svcCalls' = svcCalls + 1
    /\ UNCHANGED <<store, embCache, deletedIds, legacyCache, memo, notSvc>>

\* await retrieval_service.delete_document(document_id)
delete_document(id) ==
    /\ svcCalls < MaxSvcCalls
    /\ upload.pc = "idle"
    /\ \E d \in DeleteDocument(Cm, store, id, now) :
          /\ cache' = d.cm.cache
          /\ stats' = d.cm.stats
          /\ store' = d.store
          /\ svc' = [NoSvc EXCEPT !.service = "retrieval",
                        !.op = "delete_document", !.id = id, !.kind = d.kind,
                        !.flag = d.flag, !.db = d.db,
                        !.wasGone = id \in deletedIds, !.deleted = d.flag]
          /\ deletedIds' = IF d.flag THEN deletedIds \cup {id} ELSE deletedIds
    /\ svcCalls' = svcCalls + 1
    /\ UNCHANGED <<embCache, legacyCache, memo, notSvc>>

\* await retrieval_service.update_document(document_id, document)
update_document(id, doc, status) ==
    /\ svcCalls < MaxSvcCalls
    /\ upload.pc = "idle"
    /\ \E u \in UpdateDocument(Cm, store, embCache, id, doc, now) :
          /\ cache' = u.cm.cache
          /\ stats' = u.cm.stats
          /\ store' = u.store
          /\ embCache' = u.ec
          /\ svc' = [NoSvc EXCEPT !.service = "retrieval",
                        !.op = "update_document", !.id = id, !.kind = u.kind,
                        !.doc = IF u.kind = "ok" THEN doc ELSE NoDoc,
                        !.status = status, !.db = u.db,
                        !.wasGone = id \in deletedIds, !.deleted = u.deleted,
                        !.addFailed = u.addFailed]
    /\ deletedIds' = deletedIds \ {id, doc.id, OriginalId(doc.id)}
    /\ svcCalls' = svcCalls + 1
    /\ UNCHANGED <<legacyCache, memo, notSvc>>

(***************************************************************************)
(* DocumentUploadService.process_upload: the document it creates and the   *)
(* status it gives it.                                                     *)
(***************************************************************************)
UploadFiles == {"ok", "invalid", "unreadable"}
StoreOutcomes == {"ok", "DatabaseError"}

\* process_upload up to `await self.processor.process_document(document)`:
\* an invalid file is refused before a document exists, a file no text can
\* be extracted from fails the document
process_upload(rev, file) ==
    /\ svcCalls < MaxSvcCalls
    /\ upload.pc = "idle"
    /\ svcCalls' = svcCalls + 1
    /\ upload' =
          CASE file = "invalid" ->
                 [NoUpload EXCEPT !.pc = "done", !.kind = "DocumentUploadError"]
            [] file = "unreadable" ->
                 [NoUpload EXCEPT !.pc = "done", !.status = "failed",
                                  !.rev = rev, !.kind = "DocumentUploadError"]
            [] OTHER ->
                 [NoUpload EXCEPT !.pc = "processing", !.status = "processing",
                                  !.rev = rev]
    /\ UNCHANGED <<svc, notUpload>>

\* the rest of process_upload: process_document returns [] or raises, and
\* _store_document_chunks hands the store the (empty) lists
store_document_chunks(w) ==
    /\ upload.pc = "processing"
    /\ LET ok == ProcessOutcome(DocContent(upload.rev)) = "ok" /\ w = "ok"
       IN  upload' = [upload EXCEPT
                         !.pc = "done",
                         !.status = IF ok THEN "completed" ELSE "failed",
                         !.kind = IF ok THEN "ok" ELSE "DocumentUploadError",
                         !.stored = ok]
    /\ UNCHANGED <<svc, svcCalls, notUpload>>

\* the caller has the document or the error
upload_return ==
    /\ upload.pc = "done"
    /\ upload' = NoUpload
    /\ UNCHANGED <<svc, svcCalls, notUpload>>

RetrievalNext ==
    \/ \E doc \in RetDocs, status \in Statuses : add_document(doc, status)
    \/ \E id \in RetIds : get_document(id)
    \/ \E id \in RetIds : delete_document(id)
    \/ \E doc \in RetDocs, status \in Statuses :
          update_document(doc.id, doc, status)
    \/ \E rev \in {1, 2}, file \in UploadFiles : process_upload(rev, file)
    \/ \E w \in StoreOutcomes : store_document_chunks(w)
    \/ upload_return

SpecRetrieval == Init /\ [][RetrievalNext]_vars

\* await retrieval_service.get_similar_documents(document_id, limit,
\* score_threshold)
get_similar_documents(document_id, limit, score_threshold) ==
    /\ svcCalls < MaxSvcCalls
    /\ upload.pc = "idle"
    /\ \E r \in GetSimilarDocuments(Cm, store, embCache, document_id, limit,
                                    score_threshold, now) :
          /\ cache' = r.cm.cache
          /\ stats' = r.cm.stats
          /\ embCache' = r.ec
          /\ svc' = [NoSvc EXCEPT !.service = "retrieval",
                        !.op = "get_similar_documents", !.id = document_id,
                        !.kind = r.kind, !.limit = limit, !.found = r.found,
                        !.docs = r.docs]
    /\ svcCalls' = svcCalls + 1
    /\ UNCHANGED <<store, deletedIds, legacyCache, memo, notSvc>>

ScoreThresholds == {<<>>, <<1>>}
SimilarNext ==
    \/ \E doc \in RetDocs : add_document(doc, "pending")
    \/ \E id \in RetIds : delete_document(id)
    \/ \E id \in RetIds, limit \in 0..MaxLimit,
          score_threshold \in ScoreThresholds :
          get_similar_documents(id, limit, score_threshold)

SpecSimilar == Init /\ [][SimilarNext]_vars

(***************************************************************************)
(* RetrievalServiceImpl of services/retrieval_service.py                   *)
(***************************************************************************)
\* await retrieval_service.add_document(document)
legacy_add_document(doc, status) ==
    /\ svcCalls < MaxSvcCalls
    /\ \E a \in LegacyAddDocument(legacyCache, doc) :
          /\ legacyCache' = a.lc
          /\ svc' = [NoSvc EXCEPT !.service = "legacy",
                        !.op = "add_document", !.id = doc.id, !.kind = a.kind,
                        !.doc = IF a.kind = "ok" THEN doc ELSE NoDoc,
                        !.status = status, !.db = a.db,
                        !.wasGone = doc.id \in deletedIds,
                        !.addFailed = a.kind # "ok"]
    /\ deletedIds' = deletedIds \ {doc.id, OriginalId(doc.id)}
    /\ svcCalls' = svcCalls + 1
    /\ UNCHANGED <<cache, stats, embCache, store, memo, notSvc>>

\* await retrieval_service.get_document(document_id)
legacy_get_document(id) ==
    /\ svcCalls < MaxSvcCalls
    /\ \E g \in LegacyGetDocument(legacyCache, memo, store, id) :
          svc' = [NoSvc EXCEPT !.service = "legacy",
                     !.op = "get_document", !.id = id, !.kind = g.kind,
                     !.doc = g.doc, !.db = g.db,
                     !.wasGone = id \in deletedIds]
    /\ memo' = LruAfter(legacyCache, memo, id)
    /\ svcCalls' = svcCalls + 1
    /\ UNCHANGED <<cache, stats, embCache, store, deletedIds, legacyCache,
                   notSvc>>

\* await retrieval_service.delete_document(document_id)
legacy_delete_document(id) ==
    /\ svcCalls < MaxSvcCalls
    /\ \E d \in LegacyDeleteDocument(legacyCache, memo, store, id) :
          /\ legacyCache' = d.lc
          /\ store' = d.store
          /\ svc' = [NoSvc EXCEPT !.service = "legacy",
                        !.op = "delete_document", !.id = id, !.kind = d.kind,
                        !.flag = d.flag, !.db = d.db,
                        !.wasGone = id \in deletedIds, !.deleted = d.flag]
          /\ deletedIds' = IF d.flag THEN deletedIds \cup {id} ELSE deletedIds
    /\ memo' = LruAfter(legacyCache, memo, id)
    /\ svcCalls' = svcCalls + 1
    /\ UNCHANGED <<cache, stats, embCache, notSvc>>

\* await retrieval_service.update_document(document_id, document)
legacy_update_document(id, doc, status) ==
    /\ svcCalls < MaxSvcCalls
    /\ \E u \in LegacyUpdateDocument(legacyCache, memo, store, id, doc) :
          /\ legacyCache' = u.lc
          /\ store' = u.store
          /\ svc' = [NoSvc EXCEPT !.service = "legacy",
                        !.op = "update_document", !.id = id, !.kind = u.kind,
                        !.doc = IF u.kind = "ok" THEN doc ELSE NoDoc,
                        !.status = status, !.db = u.db,
                        !.wasGone = id \in deletedIds, !.deleted = u.deleted,
                        !.addFailed = u.addFailed]
    /\ memo' = LruAfter(legacyCache, memo, id)
    /\ deletedIds' = deletedIds \ {id, doc.id, OriginalId(doc.id)}
    /\ svcCalls' = svcCalls + 1
    /\ UNCHANGED <<cache, stats, embCache, notSvc>>

LegacyNext ==
    \/ \E doc \in RetDocs, status \in Statuses : legacy_add_document(doc, status)
    \/ \E id \in RetIds : legacy_get_document(id)
    \/ \E id \in RetIds : legacy_delete_document(id)
    \/ \E doc \in RetDocs, status \in Statuses :
          legacy_update_document(doc.id, doc, status)

SpecLegacy == Init /\ [][LegacyNext]_vars

(***************************************************************************)
(* SessionManager: one action per method.                                  *)
(***************************************************************************)
\* create_session that leaves a session it finds under the id in place
create_session_KeepExisting(session_id, metadata) ==
    /\ sm.n < MaxSmCalls
    /\ \E id \in SessIds :
          /\ IF session_id = "none" THEN ~sessions[id].exists ELSE id = session_id
          /\ sessions' = IF sessions[id].exists THEN sessions
                         ELSE [sessions EXCEPT ![id] = CreateSession(metadata)]
          /\ sm' = [NoSm EXCEPT !.op = "create_session", !.id = id,
                       !.kind = "ok", !.existed = sessions[id].exists,
                       !.unchanged = FALSE,
                       !.messages = sessions[id].messages,
                       !.meta = metadata,
                       !.ret = sessions'[id].messages, !.n = sm.n + 1]
          /\ turn' = Touch(turn, id)
    /\ UNCHANGED notChat

\* await session_manager.create_session(session_id, metadata); without a
\* session_id the id is a fresh uuid4
create_session(session_id, metadata) ==
    /\ sm.n < MaxSmCalls
    /\ \E id \in SessIds :
          /\ IF session_id = "none" THEN ~sessions[id].exists ELSE id = session_id
          /\ sessions' = [sessions EXCEPT ![id] = CreateSession(metadata)]
          /\ sm' = [NoSm EXCEPT !.op = "create_session", !.id = id,
                       !.kind = "ok", !.existed = sessions[id].exists,
                       !.unchanged = FALSE,
                       !.messages = sessions[id].messages,
                       !.meta = metadata,
                       !.ret = CreateSession(metadata).messages, !.n = sm.n + 1]
          /\ turn' = Touch(turn, id)
    /\ UNCHANGED notChat

\* await session_manager.add_message(session_id, message)
add_message(session_id, message) ==
    /\ sm.n < MaxSmCalls
    /\ LET r == SmAddMessage(sessions, session_id, message)
       IN  /\ sessions' = r.sessions
           /\ sm' = [NoSm EXCEPT !.op = "add_message", !.id = session_id,
                        !.kind = r.kind, !.existed = sessions[session_id].exists,
                        !.unchanged = (r.sessions = sessions),
                        !.ret = r.sessions[session_id].messages, !.n = sm.n + 1]
           /\ turn' = IF r.kind = "ok" THEN Touch(turn, session_id) ELSE turn
    /\ UNCHANGED notChat

\* await session_manager.update_session_metadata(session_id, metadata):
\* None for an id the map does not hold, else session.metadata.update
update_session_metadata(session_id, metadata) ==
    /\ sm.n < MaxSmCalls
    /\ sessions' = IF sessions[session_id].exists /\ metadata # NoMetadata
                   THEN [sessions EXCEPT ![session_id].context_documents = metadata]
                   ELSE sessions
    /\ sm' = [NoSm EXCEPT !.op = "update_session_metadata", !.id = session_id,
                 !.kind = "ok", !.existed = sessions[session_id].exists,
                 !.unchanged = (sessions' = sessions),
                 !.ret = sessions[session_id].messages, !.n = sm.n + 1]
    /\ UNCHANGED <<turn, notChat>>

\* await session_manager.delete_session(session_id): True or False
delete_session(session_id) ==
    /\ sm.n < MaxSmCalls
    /\ sessions' = [sessions EXCEPT ![session_id] = NoSession]
    /\ sm' = [NoSm EXCEPT !.op = "delete_session", !.id = session_id,
                 !.kind = "ok", !.existed = sessions[session_id].exists,
                 !.unchanged = ~sessions[session_id].exists, !.n = sm.n + 1]
    /\ turn' = IF sessions[session_id].exists THEN Touch(turn, session_id)
               ELSE turn
    /\ UNCHANGED notChat

\* await session_manager.get_context(session_id, max_messages)
get_context(session_id, max_messages) ==
    /\ sm.n < MaxSmCalls
    /\ sm' = IF sessions[session_id].exists
             THEN [NoSm EXCEPT !.op = "get_context", !.id = session_id,
                      !.kind = "ok", !.existed = TRUE, !.arg = max_messages,
                      !.messages = sessions[session_id].messages,
                      !.ret = GetContext(sessions[session_id].messages,
                                         max_messages),
                      !.n = sm.n + 1]
             ELSE [NoSm EXCEPT !.op = "get_context", !.id = session_id,
                      !.kind = "SessionManagerError", !.arg = max_messages,
                      !.n = sm.n + 1]
    /\ UNCHANGED <<sessions, turn, notChat>>

(***************************************************************************)
(* ChatServiceImpl.get_response, an async generator: it runs up to the     *)
(* model's stream, yields the chunks one by one, and appends the assistant *)
(* message when the stream ends.  Other calls run between the chunks.      *)
(***************************************************************************)
\* up to `async for chunk in streaming_llm.astream(...)`: the session, the
\* user message, and the context and prompt, which are ready or raise
get_response(query, session_id, pre) ==
    /\ turn.pc = "idle"
    /\ turn.n < MaxTurns
    /\ \E fresh \in SessIds :
          /\ IF session_id = "none" THEN ~sessions[fresh].exists
             ELSE fresh = session_id
          /\ LET r == ResolveSession(sessions, session_id, fresh)
                 a == SmAddMessage(r.sessions, r.sid, Message("user", query))
                 t == [NoTurn EXCEPT !.pc = "streaming", !.arg = session_id,
                          !.sid = r.sid, !.created = r.created,
                          !.before = sessions[r.sid].messages,
                          !.query = query, !.n = turn.n + 1]
             IN  /\ sessions' = a.sessions
                 /\ turn' = IF a.kind = "ok" THEN Prepare(t, pre)
                            ELSE TurnRaise(t, "append")
    /\ UNCHANGED <<sm, notChat>>

\* the legacy ChatServiceImpl.get_response up to the stream
legacy_get_response(query, session_id, pre) ==
    /\ turn.pc = "idle"
    /\ turn.n < MaxTurns
    /\ \E fresh \in SessIds :
          /\ IF session_id = "none" THEN ~sessions[fresh].exists
             ELSE fresh = session_id
          /\ LET r == ResolveSession(sessions, session_id, fresh)
                 a == SmAddMessage(r.sessions, r.sid, Message("user", query))
                 t == [NoTurn EXCEPT !.pc = "streaming", !.arg = session_id,
                          !.sid = r.sid, !.created = r.created,
                          !.before = sessions[r.sid].messages,
                          !.query = query, !.n = turn.n + 1]
             IN  /\ sessions' = a.sessions
                 /\ turn' = IF a.kind = "ok" THEN legacy_Prepare(t, pre)
                            ELSE TurnRaise(t, "append")
    /\ UNCHANGED <<sm, notChat>>

\* the model produces its next chunk: response_chunks.append, yield
stream_chunk ==
    /\ turn.pc = "streaming"
    /\ Len(turn.yielded) < MaxStream
    /\ turn' = [turn EXCEPT !.yielded = Append(@, StreamChunk(Len(@) + 1))]
    /\ UNCHANGED <<sessions, sm, notChat>>

\* stream_raise that stores what was streamed so far as the assistant message
stream_raise_SavesPartial ==
    /\ turn.pc = "streaming"
    /\ turn' = TurnRaise(turn, "stream")
    /\ sessions' = SmAddMessage(sessions, turn.sid,
                                AssistantMessage(turn.yielded)).sessions
    /\ UNCHANGED <<sm, notChat>>

\* the model's stream raises
stream_raise ==
    /\ turn.pc = "streaming"
    /\ turn' = TurnRaise(turn, "stream")
    /\ UNCHANGED <<sessions, sm, notChat>>

\* the model's stream ends: the assistant message is appended, which
\* raises when the session is gone
stream_end ==
    /\ turn.pc = "streaming"
    /\ LET a == SmAddMessage(sessions, turn.sid, AssistantMessage(turn.yielded))
       IN  /\ sessions' = a.sessions
           /\ turn' = IF a.kind = "ok"
                      THEN [turn EXCEPT !.pc = "done", !.kind = "ok"]
                      ELSE TurnRaise(turn, "append")
    /\ UNCHANGED <<sm, notChat>>

\* the caller stops consuming after a chunk: the generator stays suspended at
\* its yield until it is closed, and GeneratorExit passes `except Exception`
stream_abandon ==
    /\ turn.pc = "streaming"
    /\ Len(turn.yielded) >= 1
    /\ turn' = [turn EXCEPT !.pc = "done", !.kind = "GeneratorExit"]
    /\ UNCHANGED <<sessions, sm, notChat>>

\* the caller has the whole stream, or the error
turn_return ==
    /\ turn.pc = "done"
    /\ turn' = [NoTurn EXCEPT !.n = turn.n]
    /\ UNCHANGED <<sessions, sm, notChat>>

MetadataArgs == {NoMetadata, <<"d1">>}
MaxMessagesArgs == {<<>>, <<0>>, <<1>>, <<10>>}
ChatNext ==
    \/ \E id \in SessIds \cup {"none"}, metadata \in MetadataArgs :
          create_session(id, metadata)
    \/ \E id \in SessIds, message \in Messages : add_message(id, message)
    \/ \E id \in SessIds, metadata \in MetadataArgs :
          update_session_metadata(id, metadata)
    \/ \E id \in SessIds : delete_session(id)
    \/ \E id \in SessIds, k \in MaxMessagesArgs : get_context(id, k)
    \/ \E id \in SessIds \cup {"none"}, pre \in PreSteps :
          get_response(<<"q">>, id, pre)
    \/ stream_chunk
    \/ stream_raise
    \/ stream_abandon
    \/ stream_end
    \/ turn_return

SpecChat == Init /\ [][ChatNext]_vars

\* the legacy ChatServiceImpl (services/chat_service.py), which keeps the
\* sessions itself, with the same session operations
LegacyChatNext ==
    \/ \E id \in SessIds \cup {"none"}, metadata \in MetadataArgs :
          create_session(id, metadata)
    \/ \E id \in SessIds, message \in Messages : add_message(id, message)
    \/ \E id \in SessIds, metadata \in MetadataArgs :
          update_session_metadata(id, metadata)
    \/ \E id \in SessIds : delete_session(id)
    \/ \E id \in SessIds, k \in MaxMessagesArgs : get_context(id, k)
    \/ \E id \in SessIds \cup {"none"}, pre \in PreSteps :
          legacy_get_response(<<"q">>, id, pre)
    \/ stream_chunk
    \/ stream_raise
    \/ stream_end
    \/ turn_return

SpecChatLegacy == Init /\ [][LegacyChatNext]_vars

(***************************************************************************)
(* ContextManager.prepare_document_context, called on a manager built with *)
(* max_context_length.                                                     *)
(***************************************************************************)
\* n copies of one document, and the short lists of differing documents
UniformDocs(n, doc) == [i \in 1..n |-> doc]
ContextDocs ==
    {ContextDoc(type, content, timestamp) :
        type \in {<<>>, <<"f", "a", "q">>},
        content \in {<<"x">>, <<"y", "z">>}, timestamp \in {0, 1}}
ContextLists ==
    {UniformDocs(n, doc) : n \in 0..MaxContextDocs, doc \in ContextDocs}
        \cup {<<a, b>> : a, b \in ContextDocs}
ContextLengths == {0, 17, 18, 40, 51, 351, 370}

prepare_document_context(documents, query, max_context_length) ==
    /\ ctx.pc = "idle"
    /\ LET r == PrepareDocumentContext(documents, query, max_context_length)
       IN  ctx' = [pc |-> "done", documents |-> documents,
                   max_context_length |-> EffectiveMaxLength(max_context_length),
                   ordered |-> r.ordered, parts |-> r.parts, ret |-> r.ret]
    /\ UNCHANGED notCtx

context_return ==
    /\ ctx.pc = "done"
    /\ ctx' = NoCtx
    /\ UNCHANGED notCtx

ContextNext ==
    \/ \E documents \in ContextLists, query \in {<<>>, <<"q">>},
          max_context_length \in ContextLengths :
          prepare_document_context(documents, query, max_context_length)
    \/ context_return

SpecContext == Init /\ [][ContextNext]_vars

(***************************************************************************)
(* C4: with max_size = CacheMaxSize >= 1 the cache never holds more than   *)
(* CacheMaxSize entries after any sequence of put/get/remove/cleanup, and  *)
(* CacheMaxSize + 1 puts of distinct documents with no other call in       *)
(* between leave exactly CacheMaxSize entries: all but the first-inserted. *)
(***************************************************************************)
CacheKeys(c) == [i \in 1..Len(c) |-> c[i].id]

C4_CacheCapacity ==
    /\ Len(cache) <= CacheMaxSize
    /\ (putRun.ok /\ Len(putRun.ids) = CacheMaxSize + 1)
            => CacheKeys(cache) = Tail(putRun.ids)

C4_Witness ==
    /\ putRun.ok
    /\ Len(putRun.ids) = CacheMaxSize + 1
    /\ stats.evictions = 1

(***************************************************************************)
(* C5: get(id) returns the document most recently put under id exactly     *)
(* when an entry for id is present and its TTL has not elapsed (not        *)
(* now > created_at + ttl); otherwise it returns absent, counts a miss and *)
(* leaves no entry for id.  A put leaves an entry holding the document,    *)
(* and a get right after a put with a TTL >= 0 returns that document.      *)
(***************************************************************************)
C5_PutStored ==
    lastCall.op = "put" =>
        /\ IndexOf(cache, lastCall.id) # 0
        /\ cache[IndexOf(cache, lastCall.id)].document = lastCall.ret

C5_GetStep ==
    \A key \in CacheIds :
        (cacheOps' = cacheOps + 1 /\ lastCall'.op = "get" /\ lastCall'.id = key) =>
            LET i == IndexOf(cache, key)
                live == i # 0 /\ ~(now > cache[i].created_at + cache[i].ttl)
            IN  /\ lastCall'.ret = IF live THEN latest[key] ELSE NoDoc
                /\ live => /\ stats'.hits = stats.hits + 1
                           /\ stats'.misses = stats.misses
                /\ ~live => /\ stats'.misses = stats.misses + 1
                            /\ stats'.hits = stats.hits
                            /\ IndexOf(cache', key) = 0
                /\ (/\ lastCall.op = "put" /\ lastCall.id = key
                    /\ i # 0 /\ cache[i].created_at = now /\ cache[i].ttl >= 0)
                        => lastCall'.ret = lastCall.ret

C5_CacheGet == [](C5_PutStored) /\ [][C5_GetStep]_vars

\* a get found an expired entry and removed it, after an earlier get had hit
C5_Witness ==
    /\ lastCall.op = "get"
    /\ lastCall.n = 1
    /\ lastCall.ret = NoDoc
    /\ stats.hits > 0

(***************************************************************************)
(* C2: a get_embeddings(texts) call that returns returns exactly           *)
(* len(texts) vectors, the i-th being the embedding of texts[i], whatever  *)
(* texts are cached, repeated or spread over several batches.              *)
(***************************************************************************)
C2_OneVectorPerText ==
    (embPc = "done" /\ ~embCall.single /\ embResult.kind = "ok") =>
        embResult.vectors = embed_documents(embCall.texts)

(***************************************************************************)
(* C3: no batch sees more than retry_attempts provider requests, and when  *)
(* the retry loop of some batch ends without a provider success the call   *)
(* raises EmbeddingServiceError and returns no vectors: a call that        *)
(* returns never returns fewer vectors than texts.                         *)
(***************************************************************************)
C3_RetryThenFail ==
    /\ \A b \in 1..Len(providerCalls) : providerCalls[b] <= embCall.retry_attempts
    /\ (embPc = "done" /\ unserved > 0) =>
            /\ embResult.kind = "EmbeddingServiceError"
            /\ embResult.vectors = <<>>
    /\ (embPc = "done" /\ embResult.kind = "ok") =>
            Len(embResult.vectors) = Len(embCall.texts)

(***************************************************************************)
(* C6: whatever the order in which chunks with distinct chunk_index values *)
(* are handed over, reconstruct_from_chunks and process_chunk_results give *)
(* the same outcome, and a rebuilt document's content is the chunk         *)
(* contents in ascending chunk_index order joined by single spaces.        *)
(***************************************************************************)
Orders(n) == {p \in [1..n -> 1..n] : \A i, j \in 1..n : i # j => p[i] # p[j]}

Reconstruct(by, chunks) ==
    CASE by = "factory" -> ReconstructFromChunks(chunks)
      [] by = "processor" -> ProcessChunkResults(chunks)
      [] OTHER -> ReconstructDocumentLegacy(chunks)

\* the content of the chunk with the k-th smallest chunk_index
ContentAtRank(chunks, k) ==
    LET c == CHOOSE c \in {chunks[i] : i \in 1..Len(chunks)} :
                 Cardinality({i \in 1..Len(chunks) :
                                 chunks[i].chunk_index < c.chunk_index}) = k - 1
    IN  c.content

RECURSIVE AscendingJoin(_, _)
AscendingJoin(chunks, k) ==
    IF k > Len(chunks) THEN <<>>
    ELSE IF k = Len(chunks) THEN ContentAtRank(chunks, k)
    ELSE ContentAtRank(chunks, k) \o <<" ">> \o AscendingJoin(chunks, k + 1)

C6_OrderInvariant ==
    (recon.by # "none" /\ ~recon.fresh) =>
        /\ \A p \in Orders(Len(recon.input)) :
              Reconstruct(recon.by, [i \in 1..Len(recon.input) |-> recon.input[p[i]]])
                  = recon.out
        /\ recon.out.kind = "ok" =>
              recon.out.content = AscendingJoin(recon.input, 1)
        /\ (recon.by = "factory" /\ recon.input # <<>>) => recon.out.kind = "ok"

\* process_chunk_results rebuilt a document from three chunks handed over
\* in descending order
C6_Witness ==
    /\ recon.by = "processor"
    /\ recon.out.kind = "ok"
    /\ Len(recon.input) = 3
    /\ recon.input[1].chunk_index > recon.input[2].chunk_index
    /\ recon.input[2].chunk_index > recon.input[3].chunk_index

(***************************************************************************)
(* C7: rebuilding a document from the chunks process_document has just     *)
(* produced gives back the content up to whitespace: the chunk texts       *)
(* joined by single spaces are the content with its whitespace             *)
(* normalised, and the reconstruction returns a document with them.        *)
(***************************************************************************)
Normalize(text) == Strip(CollapseSpaces(text))

RECURSIVE JoinTexts(_)
JoinTexts(texts) ==
    IF texts = <<>> THEN <<>>
    ELSE IF Len(texts) = 1 THEN texts[1]
    ELSE texts[1] \o <<" ">> \o JoinTexts(Tail(texts))

C7_ChunkRoundTrip ==
    /\ pd.kind # "none" => Normalize(JoinTexts(pd.texts)) = Normalize(pd.content)
    /\ recon.fresh =>
          /\ recon.out.kind = "ok"
          /\ Normalize(recon.out.content) = Normalize(pd.content)

(***************************************************************************)
(* C8: a chunk Document built for a parent, whatever the parent's metadata *)
(* map, has the id "{parent.id}_chunk_{i}" and carries chunk_index = i,    *)
(* total_chunks = n and original_id = parent.id in its metadata.           *)
(***************************************************************************)
C8_ChunkNumbering ==
    cc.kind = "ok" =>
        /\ cc.chunk.id = ChunkId(cc.id, cc.chunk_index)
        /\ cc.chunk.metadata["chunk_index"] = cc.chunk_index
        /\ cc.chunk.metadata["total_chunks"] = cc.total_chunks
        /\ cc.chunk.metadata["original_id"] = cc.id

(***************************************************************************)
(* C1: once delete_document(id) has returned True and nothing was added    *)
(* for id since, a get_document(id) that the store does not fail returns   *)
(* None and a delete_document(id) that the store does not fail returns     *)
(* False, whether or not the document had been served from the cache.      *)
(***************************************************************************)
C1_DeleteThenGet ==
    /\ (svc.op = "get_document" /\ svc.wasGone /\ ~svc.db) =>
           (svc.kind = "ok" /\ svc.doc = NoDoc)
    /\ (svc.op = "delete_document" /\ svc.wasGone /\ ~svc.db) =>
           (svc.kind = "ok" /\ ~svc.flag)

(***************************************************************************)
(* C9: when in update_document(id, document) the delete step returned True *)
(* and the add step raised, the call raises RetrievalServiceError and the  *)
(* old document is gone: the store holds no record under id and no record  *)
(* whose original_id is id, and no cache lookup of id finds a document.    *)
(***************************************************************************)
C9_UpdateNotTransactional ==
    (svc.op = "update_document" /\ svc.deleted /\ svc.addFailed) =>
        /\ svc.kind = "RetrievalServiceError"
        /\ store[svc.id] = NoDoc
        /\ Hits(store, svc.id) = {}
        /\ CacheGetResult(cache, svc.id, now) = NoDoc
        /\ LruLookup(legacyCache, memo, svc.id) = NoDoc

(***************************************************************************)
(* C10: an add_document that raises leaves the document's status "failed", *)
(* and a document that process_upload takes through pending -> processing  *)
(* is "completed" only once the store has taken its chunks.                *)
(***************************************************************************)
C10_StatusPaths ==
    /\ (svc.op = "add_document" /\ svc.kind = "RetrievalServiceError") =>
           svc.status = "failed"
    /\ upload.status = "completed" => upload.stored

(***************************************************************************)
(* C11: every session the SessionManager holds has a non-empty message     *)
(* list whose first message has role system and carries the configured     *)
(* system prompt, after any sequence of create_session, add_message,       *)
(* update_session_metadata and delete_session (and of chat turns).         *)
(***************************************************************************)
C11_SessionInvariant ==
    \A s \in SessIds :
        sessions[s].exists =>
            /\ Len(sessions[s].messages) >= 1
            /\ sessions[s].messages[1] = Message("system", SystemPrompt)

\* a session that took a further message of role system by add_message
C11_Witness ==
    /\ sm.op = "add_message"
    /\ sm.kind = "ok"
    /\ Len(sessions[sm.id].messages) >= 2
    /\ sessions[sm.id].messages[Len(sessions[sm.id].messages)].role = "system"

(***************************************************************************)
(* C12: add_message on a session id the session map does not hold raises   *)
(* SessionManagerError and leaves the session map as it was: no session is *)
(* created and no session's message list changes.                          *)
(***************************************************************************)
C12_AddMessageMissing ==
    (sm.op = "add_message" /\ ~sm.existed) =>
        (sm.kind = "SessionManagerError" /\ sm.unchanged)

\* the call failed while another session was in the map
C12_Witness ==
    /\ sm.op = "add_message"
    /\ ~sm.existed
    /\ \E s \in SessIds : sessions[s].exists

(***************************************************************************)
(* C13: get_context(session_id, max_messages = k) returns the last         *)
(* min(k, n) of the session's n messages, in append order.                 *)
(***************************************************************************)
C13_ContextWindow ==
    (sm.op = "get_context" /\ sm.kind = "ok" /\ sm.arg # <<>>) =>
        LET n == Len(sm.messages)
            k == IF sm.arg[1] < n THEN sm.arg[1] ELSE n
        IN  sm.ret = SubSeq(sm.messages, n - k + 1, n)


(***************************************************************************)
(* C14: a chat turn whose model stream completes adds exactly two messages *)
(* to the session, in this order: the user message, appended before the    *)
(* model is invoked, and then one assistant message, appended only after   *)
(* the last chunk was forwarded, whose content is the concatenation, in    *)
(* order, of all chunks yielded to the caller.  TurnBase is the session's  *)
(* message list when the turn took it up; the statement is about a turn    *)
(* no other call on the same session ran into.                             *)
(***************************************************************************)
TurnBase ==
    IF turn.created THEN <<Message("system", SystemPrompt)>> ELSE turn.before

C15_ErrorsSurface ==
    [][/\ (turn'.pc # "idle" /\ turn'.raised # "none") =>
              (turn'.pc = "done" /\ turn'.kind = "ChatServiceError")
       /\ (turn.pc = "streaming" /\ turn'.pc = "done") =>
              turn'.yielded = turn.yielded]_vars


(***************************************************************************)
(* C16: get_response called with a session_id for which no session exists  *)
(* raises ChatServiceError: the turn is rejected rather than served.  A    *)
(* turn that was given an id and found no session under it never ends      *)
(* without that error.                                                     *)
(***************************************************************************)
C16_MissingSessionRejected ==
    (turn.pc = "done" /\ turn.arg # "none" /\ turn.created) =>
        turn.kind = "ChatServiceError"


(***************************************************************************)
(* C17: for every list of documents and every max_context_length, the      *)
(* string prepare_document_context returns is at most max_context_length   *)
(* plus the length of the last included whole document long, and every     *)
(* document appears in it either whole or not at all.  The length of the   *)
(* last included document is taken at its largest, the length of its whole *)
(* block in the context (header and content); the blocks of the string are *)
(* the whole blocks of the first documents of the list, in order.          *)
(***************************************************************************)
C17_ContextLengthBound ==
    ctx.pc = "done" =>
        LET k == Len(ctx.parts)
        IN  /\ k <= Len(ctx.ordered)
            /\ \A i \in 1..k : ctx.parts[i] = DocBlock(i, ctx.ordered[i])
            /\ Len(ctx.ret) <= ctx.max_context_length
                                  + (IF k = 0 THEN 0 ELSE Len(ctx.parts[k]))


(***************************************************************************)
(* C18: get_similar_documents(ref_id, limit) never returns a document      *)
(* whose id equals ref_id, for every store content and every limit.        *)
(***************************************************************************)
C18_ReferenceExcluded ==
    (svc.op = "get_similar_documents" /\ svc.kind = "ok") =>
        \A i \in 1..Len(svc.docs) : svc.docs[i].id # svc.id

C18_Witness ==
    /\ svc.op = "get_similar_documents"
    /\ svc.kind = "ok"
    /\ \E i \in 1..Len(svc.found) : svc.found[i].id = svc.id
    /\ svc.docs # <<>>

(***************************************************************************)
(* C19: get_similar_documents(ref_id, limit) returns at most limit         *)
(* documents, also when the reference document itself is not among the     *)
(* limit + 1 hits of the underlying search.                                *)
(***************************************************************************)
C19_AtMostLimit ==
    (svc.op = "get_similar_documents" /\ svc.kind = "ok") =>
        Len(svc.docs) <= svc.limit


(***************************************************************************)
(* C20: eviction from the document cache is least-recently-touched: when   *)
(* put must evict, the entry removed is the one whose last put or          *)
(* successful get is oldest, so an entry read by get after another entry   *)
(* was inserted survives that other entry on the next eviction.  Every     *)
(* entry a put removed was last touched before every entry the put left in *)
(* the cache (the entry it put aside), by the order of touches as it was   *)
(* before the put.                                                         *)
(***************************************************************************)
C20_EvictsLeastRecentlyTouched ==
    lastCall.op = "put" =>
        \A i \in 1..Len(touch.before), j \in 1..Len(touch.before) :
            (/\ IndexOf(cache, touch.before[i]) = 0
             /\ IndexOf(cache, touch.before[j]) # 0
             /\ touch.before[j] # lastCall.id)
                => i < j

C20_Witness ==
    /\ lastCall.op = "put"
    /\ stats.hits = 1
    /\ \E a \in CacheIds, b \in CacheIds :
          /\ touch.read = <<a>>
          /\ b \in touch.over
          /\ touch.before = <<b, a>>
          /\ IndexOf(cache, a) # 0
          /\ IndexOf(cache, b) = 0

(***************************************************************************)
(* C21: get_embeddings sends only the texts missing from the embedding     *)
(* cache, in batches of at most batch_size: a call with m missing texts    *)
(* that met no provider failure has made exactly ceil(m / batch_size)      *)
(* provider requests, and none when every text was cached.                 *)
(***************************************************************************)
RECURSIVE TotalCalls(_)
\* the number of provider requests of a call, over all its batches
TotalCalls(calls) ==
    IF calls = <<>> THEN 0 ELSE Head(calls) + TotalCalls(Tail(calls))

\* no embed_documents request of the finished call raised
NoProviderFailure ==
    /\ embResult.kind # "EmbeddingServiceError"
    /\ \A b \in 1..Len(providerCalls) : providerCalls[b] <= 1

C21_ProviderCallCount ==
    (embPc = "done" /\ NoProviderFailure) =>
        /\ TotalCalls(providerCalls) = (Len(missing) + BatchSize - 1) \div BatchSize
        /\ missing = <<>> => TotalCalls(providerCalls) = 0

\* a finished call with two batches of missing texts, each requested once
C21_Witness ==
    /\ embPc = "done"
    /\ NoProviderFailure
    /\ Len(missing) > BatchSize
    /\ TotalCalls(providerCalls) = 2

(***************************************************************************)
(* EmbeddingCache.set / EmbeddingCache.get called on their own, in any     *)
(* order.  ec.fifo follows the keys as they enter and leave the cache.     *)
(***************************************************************************)
\* await cache.set(key, value)
cache_set(key, value) ==
    /\ LET gone == EmbCacheOldest(embCache)
           kept == SelectSeq(ec.fifo, LAMBDA k : <<k>> # gone)
       IN  /\ embCache' = EmbCacheSet(embCache, key, value)
           /\ ec' = [op |-> "set", key |-> key, evicted |-> gone, ret |-> NoVec,
                     fifo |-> IF \E i \in 1..Len(kept) : kept[i] = key
                              THEN kept ELSE Append(kept, key),
                     was |-> ec.fifo,
                     full |-> Len(embCache) >= EmbCacheSize]
    /\ UNCHANGED <<embPc, embCall, missing, batchStart, attempt, allEmb,
                   providerCalls, unserved, embResult, embCallsMade, notEmb_ec>>

\* await cache.get(key)
cache_get(key) ==
    /\ ec' = [op |-> "get", key |-> key, evicted |-> <<>>,
              ret |-> EmbCacheGet(embCache, key), fifo |-> ec.fifo,
              was |-> ec.fifo, full |-> Len(embCache) >= EmbCacheSize]
    /\ UNCHANGED <<embVars, notEmb_ec>>

EmbCacheNext ==
    \/ \E key \in EcKeys, t \in EcKeys : cache_set(key, EmbedVec(t))
    \/ \E key \in EcKeys : cache_get(key)

SpecEmbCache == Init /\ [][EmbCacheNext]_vars

(***************************************************************************)
(* C23: the embedding cache is bounded and FIFO: it never holds more than  *)
(* max_size keys, a set that arrives at capacity removes the key that      *)
(* entered the cache first, and the order in which keys will be removed is *)
(* the order in which they entered, whatever gets were made.               *)
(***************************************************************************)
C23_BoundedFifo ==
    /\ Len(embCache) <= EmbCacheSize
    /\ \A i, j \in 1..Len(embCache) :
          embCache[i].key = embCache[j].key => i = j
    /\ (ec.op = "set" /\ ec.full) => ec.evicted = <<Head(ec.was)>>
    /\ (ec.op = "set" /\ ~ec.full) => ec.evicted = <<>>
    /\ [i \in 1..Len(embCache) |-> embCache[i].key] = ec.fifo

\* a set at capacity of a key that is cached, but is not the oldest one
C23_Witness ==
    /\ ec.op = "set"
    /\ ec.full
    /\ Len(ec.was) = EmbCacheSize
    /\ ec.key # Head(ec.was)
    /\ \E i \in 1..Len(ec.was) : ec.was[i] = ec.key
    /\ Len(embCache) = EmbCacheSize - 1

(***************************************************************************)
(* C25: a get_embeddings call that fails leaves the embedding cache as it  *)
(* was before the call: no step of a call that is still in its batch loop  *)
(* afterwards, or that ends with EmbeddingServiceError, changes the cache, *)
(* so the vectors of batches that succeeded before the failing batch are   *)
(* not cached.                                                             *)
(***************************************************************************)
C25_FailedCallKeepsCache ==
    [][(/\ embPc \in {"idle", "calling"}
        /\ \/ embPc' = "calling"
           \/ embPc' = "done" /\ embResult'.kind = "EmbeddingServiceError")
       => embCache' = embCache]_vars

\* a call has failed after an earlier batch of it had succeeded, and the
\* cache holds none of that batch's vectors
C25_Witness ==
    /\ embPc = "done"
    /\ embResult.kind = "EmbeddingServiceError"
    /\ Len(allEmb) = BatchSize
    /\ Len(missing) > BatchSize
    /\ embCache = <<>>

(***************************************************************************)
(* C27: create_session(session_id) for an id that already has a session    *)
(* replaces the stored session by a fresh one: right after the call the    *)
(* session map holds under the id a session whose only message is the      *)
(* system prompt and whose metadata is what the call was given; the former *)
(* messages and metadata are gone.                                         *)
(***************************************************************************)
C27_CreateReplaces ==
    [][(/\ sm'.op = "create_session"
        /\ sm'.n = sm.n + 1
        /\ sessions[sm'.id].exists)
       => sessions'[sm'.id] =
              [exists |-> TRUE,
               messages |-> <<[role |-> "system", content |-> SystemPrompt]>>,
               context_documents |->
                   IF sm'.meta = NoMetadata THEN <<>> ELSE sm'.meta]]_vars

\* a session with a history and metadata was replaced by a create_session
\* call that gave no metadata
C27_Witness ==
    /\ sm.op = "create_session"
    /\ sm.existed
    /\ Len(sm.messages) >= 2
    /\ sm.meta = NoMetadata
    /\ sessions[sm.id].messages = <<[role |-> "system", content |-> SystemPrompt]>>
    /\ sessions[sm.id].context_documents = <<>>

(***************************************************************************)
(* C28: a put of a document whose id is already cached, made while the     *)
(* cache is at capacity, evicts the least recently touched entry although  *)
(* no key is added: when that entry is another document it is gone after   *)
(* the put and the cache holds max_size - 1 entries; when it is the        *)
(* document's own entry the cache stays at max_size.                       *)
(***************************************************************************)
C28_PutCachedIdEvicts ==
    (/\ lastCall.op = "put"
     /\ Len(touch.before) = CacheMaxSize
     /\ \E i \in 1..Len(touch.before) : touch.before[i] = lastCall.id)
    => IF Head(touch.before) # lastCall.id
       THEN /\ \A i \in 1..Len(cache) : cache[i].id # Head(touch.before)
            /\ Len(cache) = CacheMaxSize - 1
       ELSE Len(cache) = CacheMaxSize

\* the put of a cached id at capacity removed another document
C28_Witness ==
    /\ lastCall.op = "put"
    /\ Len(touch.before) = CacheMaxSize
    /\ \E i \in 1..Len(touch.before) : touch.before[i] = lastCall.id
    /\ Head(touch.before) # lastCall.id
    /\ Len(cache) = CacheMaxSize - 1
    /\ stats.evictions >= 1

(***************************************************************************)
(* C29: a chat turn that does not run to the end of the model's stream     *)
(* (the stream raises, or the caller stops consuming the generator) leaves *)
(* the session with the turn's user message as its last message: no        *)
(* assistant message is appended for the turn.  As for C14 the statement   *)
(* is about a turn no other call on the same session ran into.             *)
(***************************************************************************)
C29_BrokenTurnKeepsUserMessage ==
    (/\ turn.pc = "done"
     /\ turn.raised = "stream" \/ turn.kind = "GeneratorExit"
     /\ ~turn.touched)
    => sessions[turn.sid].messages =
           TurnBase \o <<[role |-> "user", content |-> turn.query]>>

\* the stream raised after a chunk had been yielded
C29_Witness ==
    /\ turn.pc = "done"
    /\ turn.raised = "stream"
    /\ ~turn.touched
    /\ Len(turn.yielded) >= 1
    /\ sessions[turn.sid].messages[Len(sessions[turn.sid].messages)].role = "user"

(***************************************************************************)
(* ResultProcessor.process_search_results                                  *)
(***************************************************************************)
\* await result_processor.process_search_results(results, include_scores,
\* min_score)
process_search_results(results, include_scores, min_score) ==
    /\ sr.pc = "idle"
    /\ LET r == ProcessSearchResults(results, include_scores, min_score)
       IN  sr' = [pc |-> "done", hits |-> results.hits,
                  distances |-> results.distances,
                  include_scores |-> include_scores, min_score |-> min_score,
                  kind |-> r.kind, documents |-> r.documents]
    /\ UNCHANGED notSr

\* the caller has the documents, or the error
search_return ==
    /\ sr.pc = "done"
    /\ sr' = NoSr
    /\ UNCHANGED notSr

SearchNext ==
    \/ \E results \in RawResults, include_scores \in BOOLEAN,
          min_score \in MinScores :
          process_search_results(results, include_scores, min_score)
    \/ search_return

SpecSearch == Init /\ [][SearchNext]_vars

(***************************************************************************)
(* C24: process_search_results returns documents for exactly the hits that *)
(* pass the distance filter (distance <= min_score when min_score is set   *)
(* and scores are included) and whose document can be built and validates, *)
(* in the order in which the store returned the hits.                      *)
(***************************************************************************)
\* the hit passes the distance filter, converts and validates
C24_Kept(hit) ==
    /\ (sr.min_score # <<>> /\ sr.include_scores /\ sr.distances)
            => hit.distance <= sr.min_score[1]
    /\ hit.document_type = "sonstiges"
    /\ hit.created_at

C24_ExactlyPassingHits ==
    (sr.pc = "done" /\ sr.kind = "ok") =>
        [i \in 1..Len(sr.documents) |-> sr.documents[i].id]
            = LET kept == SelectSeq(sr.hits, C24_Kept)
              IN  [i \in 1..Len(kept) |-> kept[i].id]

\* a call in which the first of two hits was dropped and the second kept
C24_Witness ==
    /\ sr.pc = "done"
    /\ sr.kind = "ok"
    /\ sr.distances
    /\ Len(sr.hits) = 2
    /\ Len(sr.documents) = 1
    /\ sr.documents[1].id = sr.hits[2].id

(***************************************************************************)
(* RetrievalServiceImpl.get_document / delete_document as concurrent tasks *)
(***************************************************************************)
\* some delete_document(id) task has returned True
DeleteReturnedTrue(id) ==
    \E t \in Tasks : /\ req[t].op = "delete_document"
                     /\ req[t].id = id
                     /\ req[t].ret = "True"

\* the task ends
TaskDone(r, ret) == [r EXCEPT !.pc = "done", !.ret = ret]

\* get_document up to the query: `if cached_doc := await cache_manager.get(id)`
CacheCheck(t, op, id) ==
    /\ req[t].op = "none"
    /\ LET cached == CacheGetResult(cache, id, now)
           cm1 == CmGet(Cm, id, now)
           r == [NoTask EXCEPT !.op = op, !.id = id, !.doc = cached,
                               !.late = DeleteReturnedTrue(id)]
       IN  /\ cache' = cm1.cache
           /\ stats' = cm1.stats
           /\ req' = [req EXCEPT ![t] =
                        IF cached = NoDoc THEN [r EXCEPT !.pc = "query"]
                        ELSE IF op = "get_document" THEN TaskDone(r, "document")
                        ELSE [r EXCEPT !.pc = "db_delete"]]
    /\ UNCHANGED <<store, embCache, notTask_emb>>

\* a task calls get_document(document_id)
task_get_document(t, id) == CacheCheck(t, "get_document", id)

\* a task calls delete_document(document_id), which begins with get_document
task_delete_document(t, id) == CacheCheck(t, "delete_document", id)

\* the store answers `await self.db.query(where={"original_id": id})`: it
\* raises, has no hit (None, False for delete_document, or the chunks[0] of
\* process_chunk_results raises), or gives the records the document is
\* rebuilt from
task_query(t) ==
    /\ req[t].pc = "query"
    /\ \/ req' = [req EXCEPT ![t] = TaskDone(@, "RetrievalServiceError")]
       \/ /\ Hits(store, req[t].id) = {}
          /\ req' = [req EXCEPT ![t] =
                       TaskDone(@, IF @.op = "get_document" THEN "None"
                                   ELSE "False")]
       \/ /\ Hits(store, req[t].id) # {}
          /\ req' = [req EXCEPT ![t] =
                       [@ EXCEPT !.pc = "put",
                                 !.doc = RebuiltDoc(store, req[t].id)]]
    /\ UNCHANGED <<cache, stats, store, embCache, notTask_emb>>

\* the task goes on after the query: `await self.cache_manager.put(document)`
task_put(t) ==
    /\ req[t].pc = "put"
    /\ LET cm1 == CmPut(Cm, req[t].doc, now)
       IN  /\ cache' = cm1.cache
           /\ stats' = cm1.stats
    /\ req' = [req EXCEPT ![t] =
                 IF @.op = "get_document" THEN TaskDone(@, "document")
                 ELSE [@ EXCEPT !.pc = "db_delete"]]
    /\ UNCHANGED <<store, embCache, notTask_emb>>

\* the store applies `await self.db.delete([document_id])`, or raises
task_db_delete(t) ==
    /\ req[t].pc = "db_delete"
    /\ \/ /\ req' = [req EXCEPT ![t] = TaskDone(@, "RetrievalServiceError")]
          /\ UNCHANGED store
       \/ /\ store' = StoreDelete(store, {req[t].id})
          /\ req' = [req EXCEPT ![t].pc = "remove"]
    /\ UNCHANGED <<cache, stats, embCache, notTask_emb>>

\* the task goes on after the delete: `await self.cache_manager.remove(id)`,
\* return True
task_remove(t) ==
    /\ req[t].pc = "remove"
    /\ LET cm1 == CmRemove(Cm, req[t].id)
       IN  /\ cache' = cm1.cache
           /\ stats' = cm1.stats
    /\ req' = [req EXCEPT ![t] = TaskDone(@, "True")]
    /\ UNCHANGED <<store, embCache, notTask_emb>>

\* the documents are added before the tasks start
task_add_document(doc) ==
    /\ \A t \in Tasks : req[t].op = "none"
    /\ add_document(doc, "pending")

TaskNext ==
    \/ \E doc \in RetDocs : task_add_document(doc)
    \/ \E t \in Tasks, id \in TaskIds : task_get_document(t, id)
    \/ \E t \in Tasks, id \in TaskIds : task_delete_document(t, id)
    \/ \E t \in Tasks : task_query(t)
    \/ \E t \in Tasks : task_put(t)
    \/ \E t \in Tasks : task_db_delete(t)
    \/ \E t \in Tasks : task_remove(t)

SpecTasks == Init /\ [][TaskNext]_vars

InCall(t) == embTask[t].pc \in {"check", "call", "sleep", "write"}

\* the call returns or raises: `async with self._lock` releases the lock
EmbTaskDone(r, kind) == [r EXCEPT !.pc = "done", !.kind = kind]

\* a task calls get_embeddings(texts, retry_attempts): `async with
\* self._lock` is entered at once or the task queues up for the lock
task_get_embeddings(t, texts, retry_attempts) ==
    /\ embTask[t].pc = "idle"
    /\ LET r == [NoEmbTask EXCEPT
                    !.texts = texts, !.retry_attempts = retry_attempts, !.i = 1,
                    !.uncached = {texts[i] : i \in
                                   {j \in 1..Len(texts) :
                                      EmbCacheGet(embCache, texts[j]) = NoVec}},
                    !.overlap = \E u \in EmbTasks \ {t} :
                                    embTask[u].pc \notin {"idle", "done"}]
           others == [u \in EmbTasks |->
                        IF u # t /\ embTask[u].pc \notin {"idle", "done"}
                        THEN [embTask[u] EXCEPT !.overlap = TRUE]
                        ELSE embTask[u]]
       IN  IF LockAvailable(svcLock)
           THEN /\ svcLock' = [svcLock EXCEPT !.holder = t]
                /\ embTask' = [others EXCEPT ![t] = [r EXCEPT !.pc = "check"]]
           ELSE /\ svcLock' = [svcLock EXCEPT !.waiters = Append(@, t)]
                /\ embTask' = [others EXCEPT ![t] = [r EXCEPT !.pc = "waiting"]]
    /\ UNCHANGED <<embCache, cacheLock, notEmbTask>>

\* the first waiter gets the released service lock
lock_granted(t) ==
    /\ embTask[t].pc = "waiting"
    /\ svcLock.holder = 0
    /\ svcLock.waiters # <<>>
    /\ Head(svcLock.waiters) = t
    /\ svcLock' = [holder |-> t, waiters |-> Tail(svcLock.waiters)]
    /\ embTask' = [embTask EXCEPT ![t].pc = "check"]
    /\ UNCHANGED <<embCache, cacheLock, notEmbTask>>

\* EmbeddingCache.get / set: `async with self._lock`
cache_lock_acquire(t) ==
    /\ \/ embTask[t].pc = "check"
       \/ /\ embTask[t].pc = "write"
          /\ embTask[t].i <= ZipLen(embTask[t].missing, embTask[t].allEmb)
    /\ cacheLock = 0
    /\ cacheLock' = t
    /\ UNCHANGED <<embCache, embTask, svcLock, notEmbTask>>

\* the cache check of one text; after the last text the call returns the
\* cached vectors, goes to its first batch, or, with a retry loop that has
\* no round, passes the batches by
check_text(t) ==
    /\ embTask[t].pc = "check"
    /\ cacheLock = t
    /\ cacheLock' = 0
    /\ LET r == embTask[t]
           miss == IF EmbCacheGet(embCache, r.texts[r.i]) = NoVec
                   THEN Append(r.missing, r.i) ELSE r.missing
           r1 == [r EXCEPT !.missing = miss]
       IN  IF r.i < Len(r.texts)
           THEN /\ embTask' = [embTask EXCEPT ![t] = [r1 EXCEPT !.i = r.i + 1]]
                /\ UNCHANGED svcLock
           ELSE IF miss = <<>>
           THEN /\ embTask' = [embTask EXCEPT ![t] = EmbTaskDone(r1, "ok")]
                /\ svcLock' = Released(svcLock)
           ELSE /\ embTask' = [embTask EXCEPT ![t] =
                                 [r1 EXCEPT !.i = IF r.retry_attempts <= 0
                                                  THEN 1 ELSE 0,
                                            !.pc = IF r.retry_attempts <= 0
                                                   THEN "write" ELSE "call"]]
                /\ UNCHANGED svcLock
    /\ UNCHANGED <<embCache, notEmbTask>>

\* embed_documents(batch) returns: the next batch, or on to the cache update
provider_ok(t) ==
    /\ embTask[t].pc = "call"
    /\ LET r == embTask[t]
           batch == BatchAt(r.texts, r.missing, r.i)
           r1 == [r EXCEPT !.allEmb = @ \o embed_documents(batch),
                           !.sent = @ \cup {batch[k] : k \in 1..Len(batch)},
                           !.attempt = 0]
       IN  embTask' = [embTask EXCEPT ![t] =
                          IF r.i + BatchSize < Len(r.missing)
                          THEN [r1 EXCEPT !.i = r.i + BatchSize]
                          ELSE [r1 EXCEPT !.i = 1, !.pc = "write"]]
    /\ UNCHANGED <<embCache, svcLock, cacheLock, notEmbTask>>

\* provider_fail that raises out of the call with the service lock still held
provider_fail_KeepsLock(t) ==
    /\ embTask[t].pc = "call"
    /\ LET r == embTask[t]
           batch == BatchAt(r.texts, r.missing, r.i)
           r1 == [r EXCEPT !.sent = @ \cup {batch[k] : k \in 1..Len(batch)}]
       IN  IF r.attempt = r.retry_attempts - 1
           THEN embTask' = [embTask EXCEPT ![t] =
                              EmbTaskDone(r1, "EmbeddingServiceError")]
           ELSE embTask' = [embTask EXCEPT ![t] =
                              [r1 EXCEPT !.attempt = r.attempt + 1,
                                         !.pc = "sleep"]]
    /\ UNCHANGED <<embCache, svcLock, cacheLock, notEmbTask>>

\* embed_documents(batch) raises: EmbeddingServiceError on the last attempt,
\* else asyncio.sleep with the service lock held
provider_fail(t) ==
    /\ embTask[t].pc = "call"
    /\ LET r == embTask[t]
           batch == BatchAt(r.texts, r.missing, r.i)
           r1 == [r EXCEPT !.sent = @ \cup {batch[k] : k \in 1..Len(batch)}]
       IN  IF r.attempt = r.retry_attempts - 1
           THEN /\ embTask' = [embTask EXCEPT ![t] =
                                 EmbTaskDone(r1, "EmbeddingServiceError")]
                /\ svcLock' = Released(svcLock)
           ELSE /\ embTask' = [embTask EXCEPT ![t] =
                                 [r1 EXCEPT !.attempt = r.attempt + 1,
                                            !.pc = "sleep"]]
                /\ UNCHANGED svcLock
    /\ UNCHANGED <<embCache, cacheLock, notEmbTask>>

\* asyncio.sleep is over: the next attempt
sleep_over(t) ==
    /\ embTask[t].pc = "sleep"
    /\ embTask' = [embTask EXCEPT ![t].pc = "call"]
    /\ UNCHANGED <<embCache, svcLock, cacheLock, notEmbTask>>

\* `await self._cache.set(texts[i], embedding)` for one pair of the zip
write_text(t) ==
    /\ embTask[t].pc = "write"
    /\ cacheLock = t
    /\ cacheLock' = 0
    /\ LET r == embTask[t]
       IN  /\ embCache' = EmbCacheSet(embCache, r.texts[r.missing[r.i]],
                                      r.allEmb[r.i])
           /\ embTask' = [embTask EXCEPT ![t].i = r.i + 1]
    /\ UNCHANGED <<svcLock, notEmbTask>>

\* the merged list is returned
task_return(t) ==
    /\ embTask[t].pc = "write"
    /\ cacheLock # t
    /\ embTask[t].i > ZipLen(embTask[t].missing, embTask[t].allEmb)
    /\ embTask' = [embTask EXCEPT ![t] = EmbTaskDone(@, "ok")]
    /\ svcLock' = Released(svcLock)
    /\ UNCHANGED <<embCache, cacheLock, notEmbTask>>

EmbTaskStep(t) ==
    \/ lock_granted(t)
    \/ cache_lock_acquire(t)
    \/ check_text(t)
    \/ provider_ok(t)
    \/ provider_fail(t)
    \/ sleep_over(t)
    \/ write_text(t)
    \/ task_return(t)

EmbTaskNext ==
    \/ \E t \in EmbTasks, texts \in RequestTexts, r \in RetryArgs :
          task_get_embeddings(t, texts, r)
    \/ \E t \in EmbTasks : EmbTaskStep(t)

SpecEmbTasks == Init /\ [][EmbTaskNext]_vars

(***************************************************************************)
(* C22 as stated: when two get_embeddings requests for the same uncached   *)
(* text run concurrently, both requests call the embedding provider for    *)
(* that text.  The requests ran concurrently when one was called while the *)
(* other was running, and the text was cached at neither call.             *)
(***************************************************************************)
C22_BothCallProvider ==
    \A t \in EmbTasks, u \in EmbTasks, x \in EmbTexts :
        (/\ t # u
         /\ embTask[t].pc = "done" /\ embTask[u].pc = "done"
         /\ embTask[t].overlap /\ embTask[u].overlap
         /\ x \in embTask[t].uncached /\ x \in embTask[u].uncached)
        => (x \in embTask[t].sent /\ x \in embTask[u].sent)

(***************************************************************************)
(* C22, amended: concurrent get_embeddings requests are serialized by the  *)
(* service lock.  At most one request is between its cache check and its   *)
(* return; a request sends to the provider only texts that were not in the *)
(* cache at its own cache check, and a request that succeeds with          *)
(* retry_attempts >= 1 sends exactly those.  So of two concurrent requests *)
(* for the same uncached text the one that gets the lock second calls the  *)
(* provider for the text only when the first did not leave it in the       *)
(* cache.                                                                  *)
(***************************************************************************)
\* the texts the call found missing at its cache check
MissingTexts(t) ==
    {embTask[t].texts[embTask[t].missing[k]] : k \in 1..Len(embTask[t].missing)}

C22_SerializedRequests ==
    /\ \A t \in EmbTasks, u \in EmbTasks :
          t # u => ~(InCall(t) /\ InCall(u))
    /\ \A t \in EmbTasks :
          /\ embTask[t].sent \subseteq MissingTexts(t)
          /\ (/\ embTask[t].pc = "done"
              /\ embTask[t].kind = "ok"
              /\ embTask[t].retry_attempts >= 1)
             => embTask[t].sent = MissingTexts(t)

\* two requests for the same uncached text ran concurrently and both
\* succeeded: one asked the provider for the text, the other found it cached
C22_Witness ==
    \E t \in EmbTasks, u \in EmbTasks :
        /\ t # u
        /\ embTask[t].pc = "done" /\ embTask[u].pc = "done"
        /\ embTask[t].kind = "ok" /\ embTask[u].kind = "ok"
        /\ embTask[t].overlap /\ embTask[u].overlap
        /\ "a" \in embTask[t].uncached /\ "a" \in embTask[u].uncached
        /\ embTask[u].retry_attempts >= 1
        /\ "a" \in embTask[t].sent
        /\ embTask[u].sent = {}

(***************************************************************************)
(* The concurrent calls under the event loop's scheduling: a task that can *)
(* go on does go on, and a provider call returns or raises.                *)
(***************************************************************************)
SpecEmbTasksFair ==
    /\ Init
    /\ [][EmbTaskNext]_vars
    /\ \A t \in EmbTasks : WF_vars(EmbTaskStep(t))

(***************************************************************************)
(* C30: concurrent get_embeddings calls do not deadlock and each call that *)
(* was made eventually returns or raises, provided every provider call     *)
(* returns or raises.  At most one call is between its cache check and its *)
(* cache write at a time; the cache lock is only held by the call that     *)
(* holds the service lock, never the other way round; a call that has      *)
(* returned or raised holds neither lock.                                  *)
(***************************************************************************)
\* the locks are held by the one call that is running, and by no other
LocksInOrder ==
    /\ \A t \in EmbTasks, u \in EmbTasks :
          (embTask[t].pc \in {"check", "call", "sleep", "write"}
           /\ embTask[u].pc \in {"check", "call", "sleep", "write"}) => t = u
    /\ \A t \in EmbTasks :
          /\ svcLock.holder = t <=>
                embTask[t].pc \in {"check", "call", "sleep", "write"}
          /\ cacheLock = t => svcLock.holder = t
          /\ embTask[t].pc \in {"idle", "waiting", "done"} => cacheLock # t

C30_CallsTerminate ==
    /\ []LocksInOrder
    /\ \A t \in EmbTasks :
          (embTask[t].pc # "idle") ~> (embTask[t].pc = "done")

\* a call that waited for the lock has returned after the call that held
\* the lock had raised
C30_Witness ==
    \E t \in EmbTasks, u \in EmbTasks :
        /\ t # u
        /\ embTask[t].pc = "done" /\ embTask[u].pc = "done"
        /\ embTask[t].overlap /\ embTask[u].overlap
        /\ embTask[t].kind = "EmbeddingServiceError"
        /\ embTask[u].kind = "ok"
        /\ embTask[u].sent # {}
        /\ svcLock = FreeLock
        /\ cacheLock = 0

=============================================================================
